---------------------------- MODULE Spec2Model ----------------------------
(***************************************************************************)
(* A model of the MCP trading gateway (src/mcp-server) and of its client   *)
(* side request correlator (src/qwen-agent/mcp_client.py).                 *)
(*                                                                         *)
(* Spec       : the gateway process: Tool Port dispatch (mcp_protocol.py), *)
(*              the trading tool handlers (trading_tools.py) and the       *)
(*              Execution Port registry with its trade fan-out             *)
(*              (website_connector.py).                                    *)
(* SpecClient : one MCPClient: send_request callers, the message_handler   *)
(*              dispatcher task, the transport and the 30 s timeouts.      *)
(*                                                                         *)
(* Python values are modelled by strings and records of one shape each, so *)
(* that every comparison is between values of one kind: a missing JSON     *)
(* field is "absent", JSON null / Python None is "null", a falsy value     *)
(* ("" or 0) is "empty" and any other value "given".                       *)
(***************************************************************************)
EXTENDS Integers, Sequences, FiniteSets, TLC

(***************************************************************************)
(* Bounds of the model.                                                    *)
(***************************************************************************)
NConns == 2     \* Tool Port connections
NPeers == 2     \* Execution Port connections
MaxCalls == 1   \* tools/call handlers inside execute_trade at one time
MaxReq == 1     \* send_request calls the agent makes, beside the two of the handshake
MaxConnects == 2   \* connect() calls on one MCPClient
MaxTools == 3   \* register_tool calls on one MCPProtocolHandler

Conns == 1..NConns

\* the Tool Port connections of the specification of broadcast_notification
NCastConns == 3
CastConns == 1..NCastConns
Peers == 1..NPeers

(***************************************************************************)
(* Reserved JSON-RPC error codes used by the gateway.                      *)
(***************************************************************************)
PARSE_ERROR == -32700
NOT_FOUND == -32601
INTERNAL_ERROR == -32603

VARIABLES
    \* ---- gateway, Tool Port (MCPProtocolHandler) ----
    tools,                   \* self.tools: name -> handler
    tool_definitions,        \* self.tool_definitions: list of MCPTool
    clients,                 \* self.clients
    agent_response_callback, \* self.agent_response_callback
    ttrans,                  \* transport of each Tool Port connection
    tpc,                     \* position of each handle_client task
    call,                    \* the tools/call a handle_client task is inside
    last,                    \* the last process_message that ended
    \* ---- gateway, Execution Port (WebsiteConnector) ----
    website_clients,         \* self.website_clients
    wtrans,                  \* transport of each Execution Port connection
    wpc                      \* position of each handle_website_client task

svars == <<tools, tool_definitions, clients, agent_response_callback, ttrans,
           tpc, call, last, website_clients, wtrans, wpc>>

VARIABLES
    \* ---- one MCPClient (qwen-agent/mcp_client.py) ----
    connected,               \* self.connected
    websocket,               \* self.websocket: "None" or the socket
    market_data_callback,    \* self.market_data_callback: "None" or set
    pending_requests,        \* self.pending_requests: the ids that map to a future
    fut,                     \* the asyncio.Future of each request
    fvalue,                  \* the result or exception message a future holds
    rpc,                     \* position of each send_request call
    req_outcome,             \* how each send_request call ended
    cpc,                     \* position of the connect() call
    attempt,                 \* connect(): attempt
    retry_delay,             \* connect(): retry_delay, in tenths of a second
    slept,                   \* connect(): the delays it has slept
    connects,                \* the connect() calls made
    handshake_sent,          \* the handshake frames sent on self.websocket
    mh,                      \* position of the message_handler task
    ctrans,                  \* the transport of self.websocket
    orphans,                 \* running message_handler tasks of earlier sockets
    received,                \* the requests that reached the server
    inbound                  \* the last process_message that ended

cvars == <<connected, websocket, market_data_callback, pending_requests, fut, fvalue, rpc,
           req_outcome, cpc, attempt, retry_delay, slept, connects, handshake_sent, mh,
           ctrans, orphans, received, inbound>>

VARIABLES
    bcast,                   \* the broadcast in progress, or the one that has just ended
    registered,              \* the register_tool calls made, in order
    wlast,                   \* the last handle_website_message that ended
    wfirst                   \* the first frame written to each Execution Port peer

vars == <<svars, cvars, bcast, registered, wlast, wfirst>>

(***************************************************************************)
(* Python None, as the value of an optional dataclass field.               *)
(***************************************************************************)
None == [py |-> "None"]

(***************************************************************************)
(* shared/mcp_types.py                                                     *)
(***************************************************************************)
MCPRequest(id, method, params) == [id |-> id, method |-> method, params |-> params]

MCPResponse(id, result, error) == [id |-> id, result |-> result, error |-> error]

MCPTool(name, description, inputSchema) ==
    [name |-> name, description |-> description, inputSchema |-> inputSchema]

(***************************************************************************)
(* Inbound Tool Port frames.  json says what json.loads makes of the text: *)
(* "invalid" raises JSONDecodeError, "nonobject" is a list, number, string *)
(* or null, "object" is a dict with the fields below.                      *)
(***************************************************************************)
Args(kind, symbol, amount, reason, crypto) ==
    [kind |-> kind, symbol |-> symbol, amount |-> amount, reason |-> reason,
     crypto |-> crypto]

NoArgs(kind) == Args(kind, "absent", "absent", "absent", "absent")

\* arguments of a tools/call: missing, not an object, {symbol, amount},
\* {symbol, amount, reason: ""}, {crypto, amount}, {reason}, {}
ArgChoices ==
    { NoArgs("absent"), NoArgs("nonobject"), NoArgs("object"),
      Args("object", "given", "given", "absent", "absent"),
      Args("object", "given", "given", "empty", "absent"),
      Args("object", "absent", "given", "absent", "given"),
      Args("object", "absent", "absent", "given", "absent") }

Params(kind, name, arguments) == [kind |-> kind, name |-> name, arguments |-> arguments]

NoParams(kind) == Params(kind, "absent", NoArgs("absent"))

\* the name of a tools/call: a registered tool, or missing, a string that is
\* not registered, a JSON list or object (unhashable in Python)
RegisteredNames == {"buy_crypto", "sell_crypto", "hold"}
OtherNames == {"absent", "no_such_tool", "unhashable"}

Methods == {"absent", "initialize", "notifications/initialized", "tools/list",
            "tools/call", "agent_response", "no/such/method"}

\* the id of a frame: missing, JSON null, or a value
MsgIds == {"absent", "null", "id1"}

Frame(json, id, method, params) ==
    [json |-> json, id |-> id, method |-> method, params |-> params]

ToolMsgs ==
    { Frame("invalid", "absent", "absent", NoParams("absent")),
      Frame("nonobject", "absent", "absent", NoParams("absent")) }
    \cup { Frame("object", i, m, NoParams(k)) :
             i \in MsgIds, m \in Methods, k \in {"absent", "nonobject"} }
    \cup { Frame("object", "id1", "tools/call", Params("object", n, NoArgs("absent"))) :
             n \in OtherNames }
    \cup { Frame("object", "id1", "tools/call", Params("object", n, a)) :
             n \in RegisteredNames, a \in ArgChoices }

(***************************************************************************)
(* What a send on a connection does, by the state of its transport.        *)
(* "closed" raises ConnectionClosed, "error" raises another exception.     *)
(***************************************************************************)
SendOutcome(trans) ==
    CASE trans = "open" -> "ok"
      [] trans = "closed" -> "closed"
      [] OTHER -> "error"

(***************************************************************************)
(* MCPTradingServer.register_tools: the three tools as registered at       *)
(* startup, through MCPProtocolHandler.register_tool.                      *)
(***************************************************************************)
register_tool(reg, name, description, inputSchema, handler) ==
    [tool_definitions |-> Append(reg.tool_definitions, MCPTool(name, description, inputSchema)),
     tools |-> [n \in DOMAIN reg.tools \cup {name} |->
                    IF n = name THEN handler ELSE reg.tools[n]]]

EmptyRegistry == [tool_definitions |-> << >>, tools |-> [n \in {} |-> "none"]]

Schema(properties, required) == [properties |-> properties, required |-> required]

register_tools ==
    LET r1 == register_tool(EmptyRegistry, "buy_crypto",
                            "Execute a cryptocurrency buy order",
                            Schema({"crypto", "amount"}, <<"crypto", "amount">>),
                            "buy_crypto")
        r2 == register_tool(r1, "sell_crypto",
                            "Execute a cryptocurrency sell order",
                            Schema({"crypto", "amount"}, <<"crypto", "amount">>),
                            "sell_crypto")
    IN  register_tool(r2, "hold",
                      "Hold current position without taking any action",
                      Schema({"reason"}, << >>),
                      "hold")

(***************************************************************************)
(* TradingTools: what each handler does before it awaits execute_trade.    *)
(* exc is the text of the exception it raises (<< >>: none); otherwise the *)
(* action, symbol and amount it passes to execute_trade.                   *)
(***************************************************************************)
Falsy(v) == v \in {"absent", "empty", "null"}

Precheck(exc, action, symbol, amount) ==
    [exc |-> exc, action |-> action, symbol |-> symbol, amount |-> amount]

AttributeError == <<"AttributeError: object has no attribute 'get'">>

buy_crypto(params) ==
    IF params.kind = "nonobject" THEN Precheck(AttributeError, "none", "null", "null")
    ELSE IF Falsy(params.symbol) \/ Falsy(params.amount)
         THEN Precheck(<<"Missing required parameters: symbol, amount">>, "none", "null", "null")
    ELSE IF params.reason = "empty"
         THEN Precheck(<<"Missing required parameter: reason">>, "none", "null", "null")
    ELSE Precheck(<< >>, "buy_crypto", params.symbol, params.amount)

sell_crypto(params) ==
    IF params.kind = "nonobject" THEN Precheck(AttributeError, "none", "null", "null")
    ELSE IF Falsy(params.symbol) \/ Falsy(params.amount)
         THEN Precheck(<<"Missing required parameters: symbol, amount">>, "none", "null", "null")
    ELSE IF params.reason = "empty"
         THEN Precheck(<<"Missing required parameter: reason">>, "none", "null", "null")
    ELSE Precheck(<< >>, "sell_crypto", params.symbol, params.amount)

hold(params) ==
    IF params.kind = "nonobject" THEN Precheck(AttributeError, "none", "null", "null")
    ELSE IF Falsy(params.reason)
         THEN Precheck(<<"Missing required parameter: reason">>, "none", "null", "null")
    ELSE Precheck(<< >>, "hold", "null", "null")

InvokeHandler(handler, params) ==
    CASE handler = "buy_crypto" -> buy_crypto(params)
      [] handler = "sell_crypto" -> sell_crypto(params)
      [] OTHER -> hold(params)

\* except Exception as e: raise Exception(f"Buy order failed: {str(e)}")
OrderFailed(handler, e) ==
    CASE handler = "buy_crypto" -> <<"Buy order failed: ">> \o e
      [] handler = "sell_crypto" -> <<"Sell order failed: ">> \o e
      [] OTHER -> <<"Hold order failed: ">> \o e

OrderDone(handler) ==
    CASE handler = "buy_crypto" -> <<"Successfully bought">>
      [] handler = "sell_crypto" -> <<"Successfully sold">>
      [] OTHER -> <<"Successfully held position">>

(***************************************************************************)
(* MCPProtocolHandler.handle_request.  out = "return": the response is     *)
(* returned; "raise": an exception escapes handle_request; "call": the     *)
(* registered handler is awaited with the arguments.                       *)
(***************************************************************************)
Dispatch(out, response, exc, handler, arguments) ==
    [out |-> out, response |-> response, exc |-> exc, handler |-> handler,
     arguments |-> arguments]

Return(response) == Dispatch("return", response, << >>, "none", NoArgs("absent"))

Raise(exc) == Dispatch("raise", MCPResponse("null", None, None), exc, "none", NoArgs("absent"))

InitializeResult ==
    [protocolVersion |-> "2024-11-05", capabilities |-> "tools.listChanged",
     serverInfo |-> "mcp-trading-server"]

ToolsListResult_reversed(defs) ==
    [tools |-> [i \in 1..Len(defs) |-> defs[Len(defs) + 1 - i]]]

\* lines 111-119: one entry for every element of tool_definitions, in its order
ToolsListResult(defs) ==
    [tools |-> [i \in 1..Len(defs) |->
                   [name |-> defs[i].name, description |-> defs[i].description,
                    inputSchema |-> defs[i].inputSchema]]]

ErrorObj(code, message) == [code |-> code, message |-> message]

ToolCallResponse_protocolError(id, raised, text) ==
    IF raised
    THEN MCPResponse(id, None, ErrorObj(INTERNAL_ERROR, <<"Tool execution error: ">> \o text))
    ELSE MCPResponse(id, [content |-> text, isError |-> FALSE], None)

\* lines 132-161: the response built from what the awaited handler did
ToolCallResponse(id, raised, text) ==
    IF raised
    THEN MCPResponse(id, [content |-> <<"Tool execution error: ">> \o text, isError |-> TRUE], None)
    ELSE MCPResponse(id, [content |-> text, isError |-> FALSE], None)

ToolNotFound_asToolError(id, tool_name) ==
    MCPResponse(id, [content |-> <<"Tool not found: ", tool_name>>, isError |-> TRUE], None)

\* lines 126-130
ToolNotFound(id, tool_name) ==
    MCPResponse(id, None, ErrorObj(NOT_FOUND, <<"Tool not found: ", tool_name>>))

ForwardAgentResponse_unguarded(request, callback) ==
    IF callback = "raises"
    THEN Raise(<<"forwarding failed">>)
    ELSE Dispatch("return",
                  MCPResponse(request.id, [status |-> "response_forwarded"], None),
                  << >>,
                  IF callback = "None" THEN "none" ELSE "agent_response_callback",
                  NoArgs("absent"))

\* lines 168-177: the callback, when there is one, is awaited; what it raises
\* is caught and logged (exc); the acknowledgement is returned in every case
ForwardAgentResponse(request, callback) ==
    Dispatch("return",
             MCPResponse(request.id, [status |-> "response_forwarded"], None),
             IF callback = "raises" THEN <<"forwarding failed">> ELSE << >>,
             IF callback = "None" THEN "none" ELSE "agent_response_callback",
             NoArgs("absent"))

MethodNotFound_internal(id, method) ==
    MCPResponse(id, None, ErrorObj(INTERNAL_ERROR, <<"Method not found: ", method>>))

\* lines 179-183
MethodNotFound(id, method) ==
    MCPResponse(id, None, ErrorObj(NOT_FOUND, <<"Method not found: ", method>>))

handle_request(request) ==
    IF request.method = "initialize"
    THEN Return(MCPResponse(request.id, InitializeResult, None))
    ELSE IF request.method = "notifications/initialized"
    THEN Return(MCPResponse(request.id, [empty |-> TRUE], None))
    ELSE IF request.method = "tools/list"
    THEN Return(MCPResponse(request.id, ToolsListResult(tool_definitions), None))
    ELSE IF request.method = "tools/call"
    THEN IF request.params.kind = "nonobject"
         THEN Raise(AttributeError)
         ELSE LET tool_name == request.params.name
                  arguments == IF request.params.arguments.kind = "absent"
                               THEN NoArgs("object")
                               ELSE request.params.arguments
              IN  IF tool_name = "unhashable"
                  THEN Raise(<<"TypeError: unhashable type">>)
                  ELSE IF tool_name \notin DOMAIN tools
                  THEN Return(ToolNotFound(request.id, tool_name))
                  ELSE Dispatch("call", MCPResponse("null", None, None), << >>,
                                tools[tool_name], arguments)
    ELSE IF request.method = "agent_response"
    THEN IF request.params.kind = "nonobject"
         THEN Raise(AttributeError)
         ELSE ForwardAgentResponse(request, agent_response_callback)
    ELSE Return(MethodNotFound(request.id, request.method))

(***************************************************************************)
(* MCPProtocolHandler.process_message: the frames it builds.               *)
(***************************************************************************)
\* lines 50-54
ParseRequest(m) ==
    MCPRequest(IF m.id = "absent" THEN "uuid" ELSE m.id,
               m.method,
               IF m.params.kind = "absent" THEN NoParams("object") ELSE m.params)

\* lines 58-62
response_msg(response) ==
    IF response.error # None
    THEN [id |-> response.id, error |-> response.error]
    ELSE [id |-> response.id, result |-> response.result]

ParseErrorMsg_internal == [id |-> "null", error |-> ErrorObj(INTERNAL_ERROR, <<"Parse error">>)]

\* lines 67-71
ParseErrorMsg == [id |-> "null", error |-> ErrorObj(PARSE_ERROR, <<"Parse error">>)]

\* lines 75-79: data.get("id") is None when the payload has no id
InternalErrorMsg(m, e) ==
    [id |-> IF m.id = "absent" THEN "null" ELSE m.id,
     error |-> ErrorObj(INTERNAL_ERROR, <<"Internal error: ">> \o e)]

SendError(o) == IF o = "closed" THEN <<"ConnectionClosed">> ELSE <<"send failed">>

Attempt(to, frame, outcome) == [to |-> to, frame |-> frame, outcome |-> outcome]

Ended(sent, returned) == [sent |-> sent, returned |-> returned]

SendResponse_broadcast(c, m, response) ==
    Ended([i \in 1..Cardinality(clients) |->
              Attempt(CHOOSE d \in clients : Cardinality({x \in clients : x < d}) = i - 1,
                      response_msg(response), "ok")], TRUE)

\* line 63 inside the try: a failed send lands in `except Exception`, whose own
\* send (line 80) fails the same way and leaves process_message
SendResponse(c, m, response) ==
    LET o == SendOutcome(ttrans[c])
    IN  IF o = "ok"
        THEN Ended(<<Attempt(c, response_msg(response), o)>>, TRUE)
        ELSE Ended(<<Attempt(c, response_msg(response), o),
                     Attempt(c, InternalErrorMsg(m, SendError(o)), o)>>, FALSE)

\* lines 72 and 80: a send inside an except block; its failure leaves process_message
SendInHandler(c, frame) ==
    LET o == SendOutcome(ttrans[c])
    IN  Ended(<<Attempt(c, frame, o)>>, o = "ok")

(***************************************************************************)
(* WebsiteConnector.execute_trade.                                         *)
(***************************************************************************)
\* the first frame each peer was written, after the sends of one step: a
\* send whose outcome is "ok" has written its frame to the transport
FirstFrames(first, sends, type) ==
    [q \in DOMAIN first |->
        IF first[q] = "none" /\ \E i \in 1..Len(sends) : sends[i].to = q /\ sends[i].outcome = "ok"
        THEN type
        ELSE first[q]]

NoWebsiteClients_unchecked(registry) == FALSE

\* line 121: if not self.website_clients
NoWebsiteClients(registry) == registry = {}

\* lines 127-136
TradeCommand(action, symbol, amount) ==
    [type |-> "trade_command", action |-> action, symbol |-> symbol, amount |-> amount]

\* lines 140-149: what one iteration of the loop does with the outcome of its send
TradeResults(results, p, o) ==
    CASE o = "ok" -> Append(results, [client |-> p, status |-> "sent"])
      [] o = "closed" -> results
      [] OTHER -> Append(results, [client |-> p, status |-> "failed"])

TradeRegistry(registry, p, o) ==
    IF o = "closed" THEN registry \ {p} ELSE registry

(***************************************************************************)
(* History of one execute_trade call, kept with the exchange it belongs to.*)
(***************************************************************************)
Trade(started, raised, before, snap0, tried, results) ==
    [started |-> started, raised |-> raised, before |-> before, snap0 |-> snap0,
     tried |-> tried, results |-> results]

NoTrade == Trade(FALSE, FALSE, {}, {}, {}, << >>)

NoFrame == Frame("none", "absent", "absent", NoParams("absent"))

Call(msg, handler, command, before, snap0, todo, tried, results) ==
    [msg |-> msg, handler |-> handler, command |-> command, before |-> before,
     snap0 |-> snap0, todo |-> todo, tried |-> tried, results |-> results]

NoCall == Call(NoFrame, "none", TradeCommand("none", "null", "null"), {}, {}, {}, {}, << >>)

Exchange(conn, msg, sent, returned, invoked, exc, trade) ==
    [conn |-> conn, msg |-> msg, sent |-> sent, returned |-> returned,
     invoked |-> invoked, exc |-> exc, trade |-> trade]

NoExchange == Exchange(0, NoFrame, << >>, TRUE, "none", << >>, NoTrade)

(***************************************************************************)
(* One broadcast_notification or broadcast_message call: the registry it   *)
(* copied, the connections still to send to, and the sends it has made.    *)
(***************************************************************************)
Cast(kind, from, snap0, todo, tried, ended, aborted) ==
    [kind |-> kind, from |-> from, snap0 |-> snap0, todo |-> todo, tried |-> tried,
     ended |-> ended, aborted |-> aborted]

NoCast == Cast("none", 0, {}, {}, << >>, FALSE, FALSE)

(***************************************************************************)
(* What an Execution Port peer sends.  size: the text is empty, longer     *)
(* than 1024 * 1024, or in between; json: what json.loads makes of it;     *)
(* type: the "type" field; data: the "data" field (absent, a JSON object,  *)
(* anything else); inner: the "data" field of that object.                 *)
(***************************************************************************)
WebFrame(size, json, type, data, inner) ==
    [size |-> size, json |-> json, type |-> type, data |-> data, inner |-> inner]

NoWebFrame == WebFrame("none", "none", "absent", "absent", "absent")

\* a market_data message that handle_market_data accepts
MarketData == WebFrame("ok", "object", "market_data", "object", "object")

WebTypes == {"absent", "portfolio_update", "trade_confirmation", "ping", "no_such_type"}

WebMsgs ==
    { WebFrame("empty", "invalid", "absent", "absent", "absent"),
      WebFrame("oversized", "object", "ping", "absent", "absent"),
      WebFrame("ok", "invalid", "absent", "absent", "absent"),
      WebFrame("ok", "nonobject", "absent", "absent", "absent"),
      WebFrame("ok", "object", "market_data", "nonobject", "absent"),
      WebFrame("ok", "object", "market_data", "object", "nonobject") }
    \cup { WebFrame("ok", "object", t, d, "absent") :
             t \in WebTypes, d \in {"absent", "nonobject"} }

\* the record of one handle_website_message: the sends to the peer, and
\* whether the handler of the peer went back to its read loop
WExchange(peer, msg, sent, returned) ==
    [peer |-> peer, msg |-> msg, sent |-> sent, returned |-> returned]

NoWExchange == WExchange(0, NoWebFrame, << >>, TRUE)

(***************************************************************************)
(* The gateway after MCPTradingServer.__init__: tools registered, no       *)
(* connection on either port.                                              *)
(***************************************************************************)
InitGateway(reg) ==
    /\ tools = reg.tools
    /\ tool_definitions = reg.tool_definitions
    /\ registered = reg.tool_definitions
    /\ clients = {}
    /\ agent_response_callback = "None"
    /\ ttrans = [c \in Conns \cup CastConns |-> "unconnected"]
    /\ tpc = [c \in Conns \cup CastConns |-> "none"]
    /\ call = [c \in Conns \cup CastConns |-> NoCall]
    /\ last = NoExchange
    /\ website_clients = {}
    /\ wtrans = [p \in Peers |-> "unconnected"]
    /\ wpc = [p \in Peers |-> "none"]
    /\ bcast = NoCast
    /\ wlast = NoWExchange
    /\ wfirst = [p \in Peers |-> "none"]

InitServer == InitGateway(register_tools)

(***************************************************************************)
(* `last` is the record of the process_message that has just ended.  The   *)
(* step after it, Observe, takes the record away and changes nothing else; *)
(* no other step is taken in between, so that `last` is always read        *)
(* against the state the exchange ended in.  Observe commutes with every   *)
(* step of the gateway, so no behaviour of the gateway is lost.            *)
(***************************************************************************)
Quiet == last = NoExchange /\ ~bcast.ended /\ wlast = NoWExchange

Observe ==
    /\ UNCHANGED <<cvars, bcast, registered, wlast, wfirst>>
    /\ ~Quiet
    /\ last' = NoExchange
    /\ UNCHANGED <<tools, tool_definitions, clients, agent_response_callback, ttrans,
                   tpc, call, website_clients, wtrans, wpc>>

(***************************************************************************)
(* MCPProtocolHandler.handle_client.                                       *)
(***************************************************************************)
\* lines 27-29: set_agent_response_callback, with a callback that forwards
\* the response or one that raises
SetAgentResponseCallback(callback) ==
    /\ UNCHANGED <<cvars, bcast, registered, wlast, wfirst>>
    /\ Quiet
    /\ agent_response_callback # callback
    /\ agent_response_callback' = callback
    /\ UNCHANGED <<tools, tool_definitions, clients, ttrans, tpc, call, last,
                   website_clients, wtrans, wpc>>

Reading_concurrent(c) == TRUE

\* lines 37-38: the task of a connection reads its next message when the
\* process_message it awaits has returned; other connections have their own task
Reading(c) == tpc[c] = "idle"

\* line 33: a peer connects and its handler task starts
ToolConnect(c) ==
    /\ UNCHANGED <<cvars, bcast, registered, wlast, wfirst>>
    /\ Quiet
    /\ ttrans[c] = "unconnected"
    /\ ttrans' = [ttrans EXCEPT ![c] = "open"]
    /\ tpc' = [tpc EXCEPT ![c] = "idle"]
    /\ clients' = clients \cup {c}
    /\ UNCHANGED <<tools, tool_definitions, agent_response_callback, call, last,
                   website_clients, wtrans, wpc>>

\* the peer closes the connection ("closed") or the socket fails ("broken")
ToolFail(c, how) ==
    /\ UNCHANGED <<cvars, bcast, registered, wlast, wfirst>>
    /\ Quiet
    /\ ttrans[c] = "open"
    /\ ttrans' = [ttrans EXCEPT ![c] = how]
    /\ UNCHANGED <<tools, tool_definitions, clients, agent_response_callback, tpc,
                   call, last, website_clients, wtrans, wpc>>

\* lines 37-44: the read loop ends on a transport that is no longer open
ToolExit(c) ==
    /\ UNCHANGED <<cvars, bcast, registered, wlast, wfirst>>
    /\ Quiet
    /\ tpc[c] = "idle"
    /\ ttrans[c] \in {"closed", "broken"}
    /\ tpc' = [tpc EXCEPT ![c] = "done"]
    /\ clients' = clients \ {c}
    /\ ttrans' = [ttrans EXCEPT ![c] = "closed"]
    /\ UNCHANGED <<tools, tool_definitions, agent_response_callback, call, last,
                   website_clients, wtrans, wpc>>

\* process_message has ended for frame m: it returned to the read loop, or an
\* exception left it and handle_client's finally removed the connection
EndExchange(c, m, e, invoked, exc, trade) ==
    /\ last' = Exchange(c, m, e.sent, e.returned, invoked, exc, trade)
    /\ call' = [call EXCEPT ![c] = NoCall]
    /\ IF e.returned
       THEN /\ tpc' = [tpc EXCEPT ![c] = "idle"]
            /\ UNCHANGED <<clients, ttrans>>
       ELSE /\ tpc' = [tpc EXCEPT ![c] = "done"]
            /\ clients' = clients \ {c}
            /\ ttrans' = [ttrans EXCEPT ![c] = "closed"]

\* lines 37-38 and process_message up to its first suspension
ToolRecv(c, m) ==
    /\ UNCHANGED <<cvars, bcast, registered, wlast, wfirst>>
    /\ Quiet
    /\ Reading(c)
    /\ ttrans[c] = "open"
    /\ UNCHANGED <<tools, tool_definitions, agent_response_callback, wtrans, wpc>>
    /\ IF m.json = "invalid"
       THEN /\ EndExchange(c, m, SendInHandler(c, ParseErrorMsg), "none", << >>, NoTrade)
            /\ UNCHANGED website_clients
       ELSE IF m.json = "nonobject"
       THEN \* data.get raises in the try and again in the except block (line 77)
            /\ EndExchange(c, m, Ended(<< >>, FALSE), "none", << >>, NoTrade)
            /\ UNCHANGED website_clients
       ELSE LET request == ParseRequest(m)
                d == handle_request(request)
                pre == InvokeHandler(d.handler, d.arguments)
            IN  CASE d.out = "return" ->
                      /\ EndExchange(c, m, SendResponse(c, m, d.response), d.handler, d.exc, NoTrade)
                      /\ UNCHANGED website_clients
                  [] d.out = "raise" ->
                      /\ EndExchange(c, m, SendInHandler(c, InternalErrorMsg(m, d.exc)),
                                     "none", << >>, NoTrade)
                      /\ UNCHANGED website_clients
                  [] d.out = "call" /\ pre.exc # << >> ->
                      /\ EndExchange(c, m,
                             SendResponse(c, m, ToolCallResponse(request.id, TRUE, pre.exc)),
                             d.handler, pre.exc, NoTrade)
                      /\ UNCHANGED website_clients
                  [] d.out = "call" /\ pre.exc = << >> /\ NoWebsiteClients(website_clients) ->
                      \* execute_trade lines 121-123
                      LET e == OrderFailed(d.handler, <<"No website clients connected">>)
                      IN  /\ EndExchange(c, m,
                                 SendResponse(c, m, ToolCallResponse(request.id, TRUE, e)),
                                 d.handler, e,
                                 Trade(TRUE, TRUE, website_clients, {}, {}, << >>))
                          /\ UNCHANGED website_clients
                  [] OTHER ->
                      \* execute_trade lines 125-139: the command and the snapshot
                      /\ Cardinality({x \in Conns : tpc[x] = "trade"}) < MaxCalls
                      /\ call' = [call EXCEPT ![c] =
                                    Call(m, d.handler,
                                         TradeCommand(pre.action, pre.symbol, pre.amount),
                                         website_clients, website_clients, website_clients,
                                         {}, << >>)]
                      /\ tpc' = [tpc EXCEPT ![c] = "trade"]
                      /\ UNCHANGED <<clients, ttrans, last, website_clients>>

\* execute_trade lines 139-149: one iteration of the fan-out loop
TradeSend(c, p) ==
    /\ UNCHANGED <<cvars, bcast, registered, wlast>>
    /\ wfirst' = FirstFrames(wfirst, <<Attempt(p, call[c].command, SendOutcome(wtrans[p]))>>,
                             "trade_command")
    /\ Quiet
    /\ tpc[c] = "trade"
    /\ p \in call[c].todo
    /\ LET o == SendOutcome(wtrans[p])
       IN  /\ call' = [call EXCEPT ![c].todo = @ \ {p},
                                   ![c].tried = @ \cup {[peer |-> p, command |-> call[c].command,
                                                         outcome |-> o]},
                                   ![c].results = TradeResults(@, p, o)]
           /\ website_clients' = TradeRegistry(website_clients, p, o)
    /\ UNCHANGED <<tools, tool_definitions, clients, agent_response_callback, ttrans,
                   tpc, last, wtrans, wpc>>

\* execute_trade line 151, the handler's return and process_message lines 56-63
TradeReturn(c) ==
    /\ UNCHANGED <<cvars, bcast, registered, wlast, wfirst>>
    /\ Quiet
    /\ tpc[c] = "trade"
    /\ call[c].todo = {}
    /\ LET k == call[c]
           request == ParseRequest(k.msg)
       IN  EndExchange(c, k.msg,
               SendResponse(c, k.msg, ToolCallResponse(request.id, FALSE, OrderDone(k.handler))),
               k.handler, << >>,
               Trade(TRUE, FALSE, k.before, k.snap0, k.tried, k.results))
    /\ UNCHANGED <<tools, tool_definitions, agent_response_callback, website_clients,
                   wtrans, wpc>>

(***************************************************************************)
(* WebsiteConnector.handle_website_client.                                 *)
(***************************************************************************)
WelcomeWrite_afterYield(first, p) == first

\* lines 27-33: between the add of line 21 and the send of line 33 the task
\* is not suspended, and the send writes its frame to the open transport
\* before it first suspends: no other task runs before the frame is written
WelcomeWrite(first, p) ==
    FirstFrames(first, <<Attempt(p, [type |-> "connection_established"], "ok")>>,
                "connection_established")

\* lines 18-33: a peer connects, is added to the registry and the
\* connection_established send starts
WebsiteConnect(p) ==
    /\ UNCHANGED <<cvars, bcast, registered, wlast>>
    /\ wfirst' = WelcomeWrite(wfirst, p)
    /\ Quiet
    /\ wtrans[p] = "unconnected"
    /\ wtrans' = [wtrans EXCEPT ![p] = "open"]
    /\ wpc' = [wpc EXCEPT ![p] = "welcome"]
    /\ website_clients' = website_clients \cup {p}
    /\ UNCHANGED <<tools, tool_definitions, clients, agent_response_callback, ttrans,
                   tpc, call, last>>

WebsiteFail(p, how) ==
    /\ UNCHANGED <<cvars, bcast, registered, wlast, wfirst>>
    /\ Quiet
    /\ wtrans[p] = "open"
    /\ wtrans' = [wtrans EXCEPT ![p] = how]
    /\ UNCHANGED <<tools, tool_definitions, clients, agent_response_callback, ttrans,
                   tpc, call, last, website_clients, wpc>>

\* line 33: the connection_established send returns or raises
WebsiteWelcome(p) ==
    /\ UNCHANGED <<cvars, bcast, registered, wlast, wfirst>>
    /\ Quiet
    /\ wpc[p] = "welcome"
    /\ IF SendOutcome(wtrans[p]) = "ok"
       THEN /\ wpc' = [wpc EXCEPT ![p] = "idle"]
            /\ UNCHANGED <<website_clients, wtrans>>
       ELSE /\ wpc' = [wpc EXCEPT ![p] = "done"]
            /\ website_clients' = website_clients \ {p}
            /\ wtrans' = [wtrans EXCEPT ![p] = "closed"]
    /\ UNCHANGED <<tools, tool_definitions, clients, agent_response_callback, ttrans,
                   tpc, call, last>>

\* lines 36-46: the read loop ends on a transport that is no longer open
WebsiteExit(p) ==
    /\ UNCHANGED <<cvars, bcast, registered, wlast, wfirst>>
    /\ Quiet
    /\ wpc[p] = "idle"
    /\ wtrans[p] \in {"closed", "broken"}
    /\ wpc' = [wpc EXCEPT ![p] = "done"]
    /\ website_clients' = website_clients \ {p}
    /\ wtrans' = [wtrans EXCEPT ![p] = "closed"]
    /\ UNCHANGED <<tools, tool_definitions, clients, agent_response_callback, ttrans,
                   tpc, call, last>>

(***************************************************************************)
(* WebsiteConnector.handle_website_message.                                *)
(***************************************************************************)
ErrorReply(message) == [type |-> "error", message |-> message]

Pong_asError == [type |-> "error", message |-> "pong"]

\* line 95
Pong == [type |-> "pong"]

\* lines 113-116
ServerError == ErrorReply("Server error processing message")

\* server.py lines 84-90: payload.get and payload_data.get raise when the
\* value is not a dict
MarketDataRaises(m) ==
    \/ m.data = "nonobject"
    \/ m.data = "object" /\ m.inner = "nonobject"

Handled(out, frame) == [out |-> out, frame |-> frame]

\* line 53
InvalidSize(m) == m.size # "ok"

\* lines 52-107, up to the first send or the callback: "reply" a send in the
\* try block, "caught" the send of the JSONDecodeError branch, "raise" an
\* exception that reaches line 109, "callback" the market-data callback is
\* awaited, "none" nothing is sent
handle_website_message(m) ==
    IF InvalidSize(m)
    THEN Handled("reply", ErrorReply("Invalid message size"))
    ELSE IF m.json = "invalid"
    THEN Handled("caught", ErrorReply("Invalid JSON format"))
    ELSE IF m.json = "nonobject"
    THEN Handled("raise", ServerError)
    ELSE IF m.type = "absent"
    THEN Handled("reply", ErrorReply("Message must include 'type' field"))
    ELSE IF m.type = "market_data"
    THEN IF MarketDataRaises(m)
         THEN Handled("raise", ServerError)
         ELSE Handled("callback", ServerError)
    ELSE IF m.type = "ping"
    THEN Handled("reply", Pong)
    ELSE Handled("none", ServerError)

\* a send in the try block: when it raises, the handler at lines 109-117
\* sends the server error, and swallows what that send raises
SendInTry(p, frame, o) ==
    IF o = "ok"
    THEN <<Attempt(p, frame, o)>>
    ELSE <<Attempt(p, frame, o), Attempt(p, ServerError, o)>>

\* a send in an except block, inside try/except-pass
SendInExcept(p, frame, o) == <<Attempt(p, frame, o)>>

WebSends(p, h, o) ==
    CASE h.out = "reply" -> SendInTry(p, h.frame, o)
      [] h.out \in {"caught", "raise"} -> SendInExcept(p, h.frame, o)
      [] OTHER -> << >>

\* website_connector.py lines 170-174: websockets.serve is called without
\* max_size, so the library limit of 2**20 bytes applies: a longer message
\* never reaches handle_website_message, the library fails the connection
\* (close code 1009) and the read loop of line 36 raises ConnectionClosed
ExceedsMaxSize(m) == m.size = "oversized"

\* lines 36-37: the read loop takes message m of peer p, which was received
\* while the connection was open, and handle_website_message runs to its end
WebsiteRecv(p, m) ==
    /\ UNCHANGED <<cvars, bcast, registered>>
    /\ wfirst' = IF ExceedsMaxSize(m)
                 THEN wfirst
                 ELSE FirstFrames(wfirst, WebSends(p, handle_website_message(m),
                                                   SendOutcome(wtrans[p])), "reply")
    /\ Quiet
    /\ wpc[p] = "idle"
    /\ wtrans[p] \in {"open", "closed", "broken"}
    /\ handle_website_message(m).out # "callback"
    /\ IF ExceedsMaxSize(m)
       THEN /\ wlast' = WExchange(p, m, << >>, FALSE)
            /\ wpc' = [wpc EXCEPT ![p] = "done"]
            /\ website_clients' = website_clients \ {p}
            /\ wtrans' = [wtrans EXCEPT ![p] = "closed"]
       ELSE /\ wlast' = WExchange(p, m,
                                  WebSends(p, handle_website_message(m),
                                           SendOutcome(wtrans[p])),
                                  TRUE)
            /\ UNCHANGED <<wpc, website_clients, wtrans>>
    /\ UNCHANGED <<tools, tool_definitions, clients, agent_response_callback, ttrans,
                   tpc, call, last>>

\* the record of the message that has been handled is taken away
ObserveWebsite ==
    /\ UNCHANGED <<cvars, bcast, registered, wfirst>>
    /\ wlast # NoWExchange
    /\ ~bcast.ended
    /\ wlast' = NoWExchange
    /\ UNCHANGED svars

(***************************************************************************)
(* MCPProtocolHandler.register_tool, called on a handler that is serving.  *)
(***************************************************************************)
\* what a caller may register: the three tools of server.py, and "hold" a
\* second time under another description
ToolChoices ==
    { [name |-> "buy_crypto", description |-> "Execute a cryptocurrency buy order",
       inputSchema |-> Schema({"crypto", "amount"}, <<"crypto", "amount">>),
       handler |-> "buy_crypto"],
      [name |-> "sell_crypto", description |-> "Execute a cryptocurrency sell order",
       inputSchema |-> Schema({"crypto", "amount"}, <<"crypto", "amount">>),
       handler |-> "sell_crypto"],
      [name |-> "hold", description |-> "Hold current position without taking any action",
       inputSchema |-> Schema({"reason"}, << >>), handler |-> "hold"],
      [name |-> "hold", description |-> "Do nothing",
       inputSchema |-> Schema({"reason"}, <<"reason">>), handler |-> "hold"] }

RegisterTool(t) ==
    /\ UNCHANGED <<cvars, bcast, wlast, wfirst>>
    /\ Quiet
    /\ Len(tool_definitions) < MaxTools
    /\ LET r == register_tool([tool_definitions |-> tool_definitions, tools |-> tools],
                              t.name, t.description, t.inputSchema, t.handler)
       IN  /\ tools' = r.tools
           /\ tool_definitions' = r.tool_definitions
    /\ registered' = Append(registered, MCPTool(t.name, t.description, t.inputSchema))
    /\ UNCHANGED <<clients, agent_response_callback, ttrans, tpc, call, last,
                   website_clients, wtrans, wpc>>

(***************************************************************************)
(* MCPProtocolHandler.broadcast_notification and                           *)
(* WebsiteConnector.broadcast_message.                                     *)
(***************************************************************************)
\* handle_website_message lines 75-81 and server.py lines 84-95: a market_data
\* message of peer p reaches broadcast_notification, which copies the registry
WebsiteMarketData(p) ==
    /\ UNCHANGED <<cvars, registered>>
    /\ Quiet
    /\ bcast.kind = "none"
    /\ wpc[p] = "idle"
    /\ wtrans[p] = "open"
    /\ wpc' = [wpc EXCEPT ![p] = "busy"]
    /\ bcast' = Cast("notification", p, clients, clients, << >>, FALSE, FALSE)
    /\ UNCHANGED <<wlast, wfirst>>
    /\ UNCHANGED <<tools, tool_definitions, clients, agent_response_callback, ttrans,
                   tpc, call, last, website_clients, wtrans>>

\* website_connector.py lines 153-160: a broadcast_message call copies the registry
BroadcastMessage ==
    /\ UNCHANGED <<cvars, registered>>
    /\ Quiet
    /\ bcast.kind = "none"
    /\ bcast' = Cast("message", 0, website_clients, website_clients, << >>, FALSE, FALSE)
    /\ UNCHANGED <<svars, wlast, wfirst>>

NotificationSent_live(c, o) ==
    /\ clients' = IF o = "closed" THEN clients \ {c} ELSE clients
    /\ bcast' = [bcast EXCEPT !.todo = clients \ ({c} \cup {bcast.tried[i].to : i \in 1..Len(bcast.tried)}),
                              !.tried = Append(@, [to |-> c, outcome |-> o]),
                              !.ended = (o = "error"),
                              !.aborted = (o = "error")]
    /\ wpc' = IF o = "error" THEN [wpc EXCEPT ![bcast.from] = "idle"] ELSE wpc
    /\ wlast' = IF o = "error"
                THEN WExchange(bcast.from, MarketData,
                               SendInExcept(bcast.from, ServerError,
                                            SendOutcome(wtrans[bcast.from])),
                               TRUE)
                ELSE wlast
    /\ wfirst' = IF o = "error"
                 THEN FirstFrames(wfirst, SendInExcept(bcast.from, ServerError,
                                                       SendOutcome(wtrans[bcast.from])),
                                  "reply")
                 ELSE wfirst
    /\ UNCHANGED website_clients

\* mcp_protocol.py lines 196-199: only ConnectionClosed is caught, and the
\* connection discarded; any other exception leaves broadcast_notification
NotificationSent(c, o) ==
    /\ clients' = IF o = "closed" THEN clients \ {c} ELSE clients
    /\ bcast' = [bcast EXCEPT !.todo = @ \ {c},
                              !.tried = Append(@, [to |-> c, outcome |-> o]),
                              !.ended = (o = "error"),
                              !.aborted = (o = "error")]
    \* website_connector.py lines 109-117: the exception ends the handling of
    \* the peer's message, after an error reply to the peer
    /\ wpc' = IF o = "error" THEN [wpc EXCEPT ![bcast.from] = "idle"] ELSE wpc
    /\ wlast' = IF o = "error"
                THEN WExchange(bcast.from, MarketData,
                               SendInExcept(bcast.from, ServerError,
                                            SendOutcome(wtrans[bcast.from])),
                               TRUE)
                ELSE wlast
    /\ wfirst' = IF o = "error"
                 THEN FirstFrames(wfirst, SendInExcept(bcast.from, ServerError,
                                                       SendOutcome(wtrans[bcast.from])),
                                  "reply")
                 ELSE wfirst
    /\ UNCHANGED website_clients

\* website_connector.py lines 161-166: ConnectionClosed discards the peer, any
\* other exception is logged; the loop goes on
MessageSent(p, o) ==
    /\ website_clients' = IF o = "closed" THEN website_clients \ {p} ELSE website_clients
    /\ bcast' = [bcast EXCEPT !.todo = @ \ {p},
                              !.tried = Append(@, [to |-> p, outcome |-> o])]
    /\ wfirst' = FirstFrames(wfirst, <<[to |-> p, outcome |-> o]>>, "broadcast")
    /\ UNCHANGED <<clients, wpc, wlast>>

\* one iteration of the loop of a broadcast
BroadcastSend(x) ==
    /\ UNCHANGED <<cvars, registered>>
    /\ Quiet
    /\ bcast.kind # "none"
    /\ x \in bcast.todo
    /\ IF bcast.kind = "notification"
       THEN NotificationSent(x, SendOutcome(ttrans[x]))
       ELSE MessageSent(x, SendOutcome(wtrans[x]))
    /\ UNCHANGED <<tools, tool_definitions, agent_response_callback, ttrans, tpc, call,
                   last, wtrans>>

\* the loop has gone through the copy and the broadcast returns
BroadcastReturn ==
    /\ UNCHANGED <<cvars, registered>>
    /\ Quiet
    /\ bcast.kind # "none"
    /\ bcast.todo = {}
    /\ bcast' = [bcast EXCEPT !.ended = TRUE]
    /\ wpc' = IF bcast.kind = "notification" THEN [wpc EXCEPT ![bcast.from] = "idle"] ELSE wpc
    /\ wlast' = IF bcast.kind = "notification"
                THEN WExchange(bcast.from, MarketData, << >>, TRUE)
                ELSE wlast
    /\ UNCHANGED wfirst
    /\ UNCHANGED <<tools, tool_definitions, clients, agent_response_callback, ttrans,
                   tpc, call, last, website_clients, wtrans>>

\* the record of the broadcast that has ended is taken away
ObserveBroadcast ==
    /\ UNCHANGED <<cvars, registered>>
    /\ bcast.ended
    /\ bcast' = NoCast
    /\ wlast' = NoWExchange
    /\ UNCHANGED <<svars, wfirst>>

(***************************************************************************)
(*                                MCPClient                                *)
(*                                                                         *)
(* A request is named by the place that issues it: the two requests of the *)
(* handshake in initialize(), and the calls of the agent.  The name stands *)
(* for the uuid4 of the request (line 99) and for its future.              *)
(***************************************************************************)
max_retries == 3
FIRST_DELAY == 20

ReqNames == <<"call1", "call2", "call3", "call4">>
AppSlots == {ReqNames[i] : i \in 1..MaxReq}
HandshakeSlots == {"initialize", "tools/list"}
\* agent.py lines 319-329: the request that the market-data callback of the
\* agent issues
CallbackSlots == {"agent_response"}
Slots == HandshakeSlots \cup AppSlots \cup CallbackSlots

Handshake_listFirst == <<"initialize", "tools/list", "notifications/initialized">>

\* initialize() lines 132-144: the frames of the handshake, in program order
Handshake == <<"initialize", "notifications/initialized", "tools/list">>

(***************************************************************************)
(* Inbound frames of the client.  json is what json.loads makes of the     *)
(* text; id is missing, the id of a request of this client, or "stray": an *)
(* id that no request of this client in progress has; kind says whether    *)
(* the frame has a result, an error with a message, or an error without    *)
(* one; payload is the result, or the message of the error.                *)
(***************************************************************************)
Payloads == {"p1", "p2"}

InFrame(json, id, method, kind, payload) ==
    [json |-> json, id |-> id, method |-> method, kind |-> kind, payload |-> payload]

NoInFrame == InFrame("none", "absent", "absent", "none", "none")

Reply(id, kind, payload) == InFrame("object", id, "absent", kind, payload)

Replies(id) ==
    { Reply(id, "result", p) : p \in Payloads }
    \cup { Reply(id, "error", "p1"), Reply(id, "badError", "none") }

ClientMsgs(ids) ==
    { InFrame("invalid", "absent", "absent", "none", "none"),
      InFrame("nonobject", "absent", "absent", "none", "none"),
      InFrame("object", "absent", "market_data", "none", "none"),
      InFrame("object", "absent", "other", "none", "none"),
      InFrame("object", "stray", "market_data", "none", "none") }
    \cup UNION { Replies(i) : i \in ids \cup {"stray"} }

\* the replies of a server that answers the handshake and sends nothing else
HandshakeMsgs(ids) ==
    { Reply(i, k, "p1") : i \in ids \cap HandshakeSlots, k \in {"result", "error"} }

\* the correlator's part of the state, as one value
Correlator == [pending |-> pending_requests, fut |-> fut, value |-> fvalue, rpc |-> rpc,
               outcome |-> req_outcome, received |-> received]

SetCorrelator(R) ==
    /\ pending_requests' = R.pending
    /\ fut' = R.fut
    /\ fvalue' = R.value
    /\ rpc' = R.rpc
    /\ req_outcome' = R.outcome
    /\ received' = R.received

\* send_request lines 93-112, up to the wait: the connection check, the
\* registration of the future and the transmission
send_request_unchecked(R, s, isConnected, ws, trans) ==
    IF trans = "open" /\ ws # "None"
    THEN [R EXCEPT !.pending = @ \cup {s}, !.fut[s] = "pending",
                   !.rpc[s] = "waiting", !.received = @ \cup {s}]
    ELSE [R EXCEPT !.pending = @ \cup {s}, !.fut[s] = "pending",
                   !.rpc[s] = "done", !.outcome[s] = "send_failed"]

send_request(R, s, isConnected, ws, trans) ==
    IF ~isConnected \/ ws = "None"
    THEN [R EXCEPT !.rpc[s] = "done", !.outcome[s] = "not_connected"]
    ELSE IF trans = "open"
    THEN [R EXCEPT !.pending = @ \cup {s}, !.fut[s] = "pending",
                   !.rpc[s] = "waiting", !.received = @ \cup {s}]
    ELSE \* websocket.send raises ConnectionClosed, outside the try of line 115
         [R EXCEPT !.pending = @ \cup {s}, !.fut[s] = "pending",
                   !.rpc[s] = "done", !.outcome[s] = "send_failed"]

PopOnFailure_never(pending, s, f) == pending

\* lines 118-126: a result returns as it is; TimeoutError and any other
\* exception pop the id first
PopOnFailure(pending, s, f) ==
    IF f = "result" THEN pending ELSE pending \ {s}

WaitOutcome(f) ==
    CASE f = "result" -> "result"
      [] f = "exception" -> "error"
      [] OTHER -> "timeout"

\* send_request lines 115-126: wait_for has ended and the caller runs again
wait_ended(R, s) ==
    [R EXCEPT !.rpc[s] = "done",
              !.outcome[s] = WaitOutcome(R.fut[s]),
              !.pending = PopOnFailure(@, s, R.fut[s])]

\* line 73: "id" in data and data["id"] in self.pending_requests
IsPending(pending, s) == s \in pending

MatchFuture_any(R, s) == CHOOSE t \in R.pending \cap Slots : TRUE

\* line 74: the future that the reply resolves is the one stored under its id
MatchFuture(R, s) == s

\* process_message lines 74-78 for a reply that carries the pending id s.
\* set_result and set_exception raise InvalidStateError on a future that is
\* already cancelled, and data["error"]["message"] raises on an error
\* without a message; line 88 catches both, after the pop of line 74.
process_reply(R, s, kind, payload) ==
    LET t == MatchFuture(R, s)
        popped == [R EXCEPT !.pending = @ \ {t}]
    IN  IF kind = "badError" \/ R.fut[t] # "pending"
        THEN popped
        ELSE [popped EXCEPT !.fut[t] = IF kind = "error" THEN "exception" ELSE "result",
                            !.value[t] = payload]

Notified_anyFrame(f, callback) == callback # "None"

\* lines 81-84: a frame with a method is a notification; market_data goes to
\* the callback when one is set
Notified(f, callback) ==
    f.method # "absent" /\ f.method = "market_data" /\ callback # "None"

Processed(R, called, caught) == [R |-> R, called |-> called, caught |-> caught]

\* process_message lines 68-89.  A frame that is not an object (a number or
\* null) raises TypeError at line 73.
process_message(R, f, callback) ==
    IF f.json # "object"
    THEN Processed(R, FALSE, TRUE)
    ELSE IF f.id # "absent" /\ IsPending(R.pending, f.id)
    THEN Processed(process_reply(R, f.id, f.kind, f.payload), FALSE,
                   f.kind = "badError" \/ R.fut[f.id] # "pending")
    ELSE Processed(R, Notified(f, callback), FALSE)

\* the record of one process_message of the client
Inbound(frame, before, called, caught) ==
    [frame |-> frame, before |-> before, called |-> called, caught |-> caught]

\* MCPClient.__init__ lines 17: no request yet
InitCorrelator ==
    [pending |-> {}, fut |-> [s \in Slots |-> "none"], value |-> [s \in Slots |-> "none"],
     rpc |-> [s \in Slots |-> "free"], outcome |-> [s \in Slots |-> "none"],
     received |-> {}]

NoInbound == Inbound(NoInFrame, InitCorrelator, FALSE, FALSE)

\* line 99: every send_request call makes a new id.  The requests of an
\* earlier handshake have ended; an id they left in pending_requests stays
\* there as "old".
Forget(R, S) ==
    [pending |-> (R.pending \ S) \cup (IF R.pending \cap S # {} THEN {"old"} ELSE {}),
     fut |-> [s \in Slots |-> IF s \in S THEN "none" ELSE R.fut[s]],
     value |-> [s \in Slots |-> IF s \in S THEN "none" ELSE R.value[s]],
     rpc |-> [s \in Slots |-> IF s \in S THEN "free" ELSE R.rpc[s]],
     outcome |-> [s \in Slots |-> IF s \in S THEN "none" ELSE R.outcome[s]],
     received |-> R.received \ S]

TransportStates == {"open", "clean", "abnormal"}

InitClient ==
    /\ connected = FALSE
    /\ websocket = "None"
    /\ market_data_callback = "None"
    /\ pending_requests = InitCorrelator.pending
    /\ fut = InitCorrelator.fut
    /\ fvalue = InitCorrelator.value
    /\ rpc = InitCorrelator.rpc
    /\ req_outcome = InitCorrelator.outcome
    /\ received = InitCorrelator.received
    /\ cpc = "none"
    /\ attempt = 0
    /\ retry_delay = FIRST_DELAY
    /\ slept = << >>
    /\ connects = 0
    /\ handshake_sent = << >>
    /\ mh = "none"
    /\ ctrans = "none"
    /\ orphans = [t \in TransportStates |-> 0]
    /\ inbound = NoInbound

(***************************************************************************)
(* `inbound` is the record of the process_message that has just ended in   *)
(* the client; ObserveClient takes it away, and no other step of the       *)
(* client is taken in between.                                             *)
(***************************************************************************)
ClientQuiet == inbound = NoInbound

ObserveClient ==
    /\ ~ClientQuiet
    /\ inbound' = NoInbound
    /\ UNCHANGED <<connected, websocket, market_data_callback, pending_requests, fut,
                   fvalue, rpc, req_outcome, cpc, attempt, retry_delay, slept, connects,
                   handshake_sent, mh, ctrans, orphans, received>>
    /\ UNCHANGED <<svars, bcast, registered, wlast, wfirst>>

\* set_market_data_callback lines 171-173, which the agent calls when its
\* first connect() has returned
SetCallback ==
    /\ ClientQuiet
    /\ market_data_callback = "None"
    /\ cpc = "ready"
    /\ market_data_callback' = "set"
    /\ UNCHANGED <<connected, websocket, pending_requests, fut, fvalue, rpc, req_outcome,
                   cpc, attempt, retry_delay, slept, connects, handshake_sent, mh, ctrans,
                   orphans, received, inbound>>
    /\ UNCHANGED <<svars, bcast, registered, wlast, wfirst>>

\* connect() lines 21-29: a call of connect(), the first or a later one, up
\* to its first websockets.connect
Connect ==
    /\ ClientQuiet
    /\ cpc \in {"none", "ready", "failed"}
    /\ connects < MaxConnects
    /\ connects' = connects + 1
    /\ cpc' = "connecting"
    /\ attempt' = 0
    /\ retry_delay' = FIRST_DELAY
    /\ slept' = << >>
    /\ SetCorrelator(Forget(Correlator, HandshakeSlots))
    /\ UNCHANGED <<connected, websocket, market_data_callback, handshake_sent, mh, ctrans,
                   orphans, inbound>>
    /\ UNCHANGED <<svars, bcast, registered, wlast, wfirst>>

\* lines 40-48: websockets.connect raised ConnectionRefusedError or OSError
ConnectRefused ==
    /\ ClientQuiet
    /\ cpc = "connecting"
    /\ IF attempt < max_retries - 1
       THEN /\ cpc' = "sleeping"
            /\ UNCHANGED connected
       ELSE /\ cpc' = "failed"
            /\ connected' = FALSE
    /\ UNCHANGED <<websocket, market_data_callback, pending_requests, fut, fvalue, rpc,
                   req_outcome, attempt, retry_delay, slept, connects, handshake_sent, mh,
                   ctrans, orphans, received, inbound>>
    /\ UNCHANGED <<svars, bcast, registered, wlast, wfirst>>

Backoff_constant(delay) == delay

\* line 44: retry_delay *= 1.5, on tenths of a second
Backoff(delay) == (delay * 3) \div 2

\* lines 43-44 and the next turn of the loop
BackoffDone ==
    /\ ClientQuiet
    /\ cpc = "sleeping"
    /\ slept' = Append(slept, retry_delay)
    /\ retry_delay' = Backoff(retry_delay)
    /\ attempt' = attempt + 1
    /\ cpc' = "connecting"
    /\ UNCHANGED <<connected, websocket, market_data_callback, pending_requests, fut,
                   fvalue, rpc, req_outcome, connects, handshake_sent, mh, ctrans, orphans,
                   received, inbound>>
    /\ UNCHANGED <<svars, bcast, registered, wlast, wfirst>>

\* lines 29-37: the transport is up; self.websocket is replaced, connected is
\* set, a new message_handler task is created and initialize() issues its
\* first request.  A message_handler of an earlier connection that is still
\* running keeps reading its own socket.
ConnectOpen ==
    /\ ClientQuiet
    /\ cpc = "connecting"
    /\ websocket' = "ws"
    /\ ctrans' = "open"
    /\ connected' = TRUE
    /\ mh' = "running"
    /\ orphans' = IF mh = "running" THEN [orphans EXCEPT ![ctrans] = @ + 1] ELSE orphans
    /\ SetCorrelator(send_request(Correlator, "initialize", TRUE, "ws", "open"))
    /\ handshake_sent' = <<Handshake[1]>>
    /\ cpc' = "initialize"
    /\ UNCHANGED <<market_data_callback, attempt, retry_delay, slept, connects,
                   inbound>>
    /\ UNCHANGED <<svars, bcast, registered, wlast, wfirst>>

\* send_notification lines 175-190: nothing is sent when not connected, and a
\* failed send is only logged
send_notification(sent, method, isConnected, ws, trans) ==
    IF isConnected /\ ws # "None" /\ trans = "open" THEN Append(sent, method) ELSE sent

\* initialize() lines 132-141: the initialize request has ended; on a result
\* the notification is sent.  Every exception reaches connect() line 49.
InitializeEnded ==
    /\ ClientQuiet
    /\ cpc = "initialize"
    /\ rpc["initialize"] = "waiting"
    /\ fut["initialize"] # "pending"
    /\ LET R1 == wait_ended(Correlator, "initialize")
       IN  /\ SetCorrelator(R1)
           /\ IF R1.outcome["initialize"] = "result"
              THEN /\ cpc' = "notified"
                   /\ handshake_sent' = send_notification(handshake_sent, Handshake[2],
                                                          connected, websocket, ctrans)
                   /\ UNCHANGED connected
              ELSE /\ cpc' = "failed"
                   /\ connected' = FALSE
                   /\ UNCHANGED handshake_sent
    /\ UNCHANGED <<websocket, market_data_callback, attempt, retry_delay, slept, connects,
                   mh, ctrans, orphans, inbound>>
    /\ UNCHANGED <<svars, bcast, registered, wlast, wfirst>>

\* initialize() line 144: the tools/list request is issued
ListTools ==
    /\ ClientQuiet
    /\ cpc = "notified"
    /\ LET R2 == send_request(Correlator, "tools/list", connected, websocket, ctrans)
       IN  /\ SetCorrelator(R2)
           /\ IF R2.rpc["tools/list"] = "waiting"
              THEN /\ cpc' = "tools/list"
                   /\ handshake_sent' = Append(handshake_sent, Handshake[3])
                   /\ UNCHANGED connected
              ELSE /\ cpc' = "failed"
                   /\ connected' = FALSE
                   /\ UNCHANGED handshake_sent
    /\ UNCHANGED <<websocket, market_data_callback, attempt, retry_delay, slept, connects,
                   mh, ctrans, orphans, inbound>>
    /\ UNCHANGED <<svars, bcast, registered, wlast, wfirst>>

\* initialize() lines 144-152 and connect() line 38, or line 49
ToolsListEnded ==
    /\ ClientQuiet
    /\ cpc = "tools/list"
    /\ rpc["tools/list"] = "waiting"
    /\ fut["tools/list"] # "pending"
    /\ LET R1 == wait_ended(Correlator, "tools/list")
       IN  /\ SetCorrelator(R1)
           /\ IF R1.outcome["tools/list"] = "result"
              THEN /\ cpc' = "ready"
                   /\ UNCHANGED connected
              ELSE /\ cpc' = "failed"
                   /\ connected' = FALSE
    /\ UNCHANGED <<websocket, market_data_callback, attempt, retry_delay, slept, connects,
                   handshake_sent, mh, ctrans, orphans, inbound>>
    /\ UNCHANGED <<svars, bcast, registered, wlast, wfirst>>

\* a send_request call of the agent, lines 91-112
SendRequest(s) ==
    /\ ClientQuiet
    /\ rpc[s] = "free"
    /\ SetCorrelator(send_request(Correlator, s, connected, websocket, ctrans))
    /\ UNCHANGED <<connected, websocket, market_data_callback, cpc, attempt, retry_delay,
                   slept, connects, handshake_sent, mh, ctrans, orphans, inbound>>
    /\ UNCHANGED <<svars, bcast, registered, wlast, wfirst>>

\* a send_request call of the agent, lines 115-126
RequestEnded(s) ==
    /\ ClientQuiet
    /\ rpc[s] = "waiting"
    /\ fut[s] # "pending"
    /\ SetCorrelator(wait_ended(Correlator, s))
    /\ UNCHANGED <<connected, websocket, market_data_callback, cpc, attempt, retry_delay,
                   slept, connects, handshake_sent, mh, ctrans, orphans, inbound>>
    /\ UNCHANGED <<svars, bcast, registered, wlast, wfirst>>

\* line 116: the 30 s of wait_for elapse and the future is cancelled; the
\* caller runs again in a later turn of the event loop
TimerFires(s) ==
    /\ ClientQuiet
    /\ rpc[s] = "waiting"
    /\ fut[s] = "pending"
    /\ fut' = [fut EXCEPT ![s] = "cancelled"]
    /\ UNCHANGED <<connected, websocket, market_data_callback, pending_requests, fvalue,
                   rpc, req_outcome, cpc, attempt, retry_delay, slept, connects,
                   handshake_sent, mh, ctrans, orphans, received, inbound>>
    /\ UNCHANGED <<svars, bcast, registered, wlast, wfirst>>

IsReply(f) == f.json = "object" /\ f.method = "absent"

\* message_handler lines 57-58 and process_message: a frame arrives on a
\* socket that a message_handler task is reading.  The server may answer a
\* request it has received late, twice or never, and may send other frames.
Receive(f) ==
    /\ ClientQuiet
    /\ \/ mh = "running" /\ ctrans = "open"
       \/ orphans["open"] > 0
    /\ LET p == process_message(Correlator, f, market_data_callback)
       IN  /\ SetCorrelator(p.R)
           /\ inbound' = Inbound(f, Correlator, p.called, p.caught)
    /\ UNCHANGED <<connected, websocket, market_data_callback, cpc, attempt, retry_delay,
                   slept, connects, handshake_sent, mh, ctrans, orphans>>
    /\ UNCHANGED <<svars, bcast, registered, wlast, wfirst>>

\* the transport closes: cleanly (a close frame) or abnormally
TransportCloses(how) ==
    /\ ClientQuiet
    /\ ctrans = "open"
    /\ ctrans' = how
    /\ UNCHANGED <<connected, websocket, market_data_callback, pending_requests, fut,
                   fvalue, rpc, req_outcome, cpc, attempt, retry_delay, slept, connects,
                   handshake_sent, mh, orphans, received, inbound>>
    /\ UNCHANGED <<svars, bcast, registered, wlast, wfirst>>

\* message_handler lines 56-64: the iteration ends on a clean close and raises
\* ConnectionClosed on an abnormal one
HandlerEnds ==
    /\ ClientQuiet
    /\ mh = "running"
    /\ ctrans \in {"clean", "abnormal"}
    /\ mh' = "ended"
    /\ connected' = IF ctrans = "abnormal" THEN FALSE ELSE connected
    /\ UNCHANGED <<websocket, market_data_callback, pending_requests, fut, fvalue, rpc,
                   req_outcome, cpc, attempt, retry_delay, slept, connects, handshake_sent,
                   ctrans, orphans, received, inbound>>
    /\ UNCHANGED <<svars, bcast, registered, wlast, wfirst>>

\* the socket of an earlier connection closes
OrphanCloses(how) ==
    /\ ClientQuiet
    /\ orphans["open"] > 0
    /\ orphans' = [orphans EXCEPT !["open"] = @ - 1, ![how] = @ + 1]
    /\ UNCHANGED <<connected, websocket, market_data_callback, pending_requests, fut,
                   fvalue, rpc, req_outcome, cpc, attempt, retry_delay, slept, connects,
                   handshake_sent, mh, ctrans, received, inbound>>
    /\ UNCHANGED <<svars, bcast, registered, wlast, wfirst>>

\* message_handler lines 56-64, in the task of an earlier connection
OrphanEnds(how) ==
    /\ ClientQuiet
    /\ orphans[how] > 0
    /\ orphans' = [orphans EXCEPT ![how] = @ - 1]
    /\ connected' = IF how = "abnormal" THEN FALSE ELSE connected
    /\ UNCHANGED <<websocket, market_data_callback, pending_requests, fut, fvalue, rpc,
                   req_outcome, cpc, attempt, retry_delay, slept, connects, handshake_sent,
                   mh, ctrans, received, inbound>>
    /\ UNCHANGED <<svars, bcast, registered, wlast, wfirst>>

\* message_handler lines 57-58, process_message lines 81-84 and agent.py
\* lines 202-274 and 319-325: a market_data notification arrives, the
\* dispatcher awaits the callback of the agent, and the callback issues its
\* agent_response request; the dispatcher is inside the callback ("callback")
\* until the request has ended
AgentMarketData ==
    /\ ClientQuiet
    /\ mh = "running"
    /\ ctrans = "open"
    /\ Notified(InFrame("object", "absent", "market_data", "none", "none"),
                market_data_callback)
    /\ connected
    /\ rpc["agent_response"] = "free"
    /\ LET R == send_request(Correlator, "agent_response", connected, websocket, ctrans)
       IN  /\ SetCorrelator(R)
           /\ mh' = IF R.rpc["agent_response"] = "waiting" THEN "callback" ELSE "running"
    /\ UNCHANGED <<connected, websocket, market_data_callback, cpc, attempt, retry_delay,
                   slept, connects, handshake_sent, ctrans, orphans, inbound>>
    /\ UNCHANGED <<svars, bcast, registered, wlast, wfirst>>

\* mcp_client.py lines 115-126 and agent.py lines 326-329: the request of
\* the callback has ended, the callback returns and the dispatcher reads again
AgentResponseEnded ==
    /\ ClientQuiet
    /\ mh = "callback"
    /\ rpc["agent_response"] = "waiting"
    /\ fut["agent_response"] # "pending"
    /\ SetCorrelator(wait_ended(Correlator, "agent_response"))
    /\ mh' = "running"
    /\ UNCHANGED <<connected, websocket, market_data_callback, cpc, attempt, retry_delay,
                   slept, connects, handshake_sent, ctrans, orphans, inbound>>
    /\ UNCHANGED <<svars, bcast, registered, wlast, wfirst>>

FirstConnect == connects = 0 /\ Connect

NextClient ==
    \/ SetCallback
    \/ FirstConnect
    \/ ConnectRefused
    \/ BackoffDone
    \/ ConnectOpen
    \/ InitializeEnded
    \/ ListTools
    \/ ToolsListEnded
    \/ \E s \in AppSlots : SendRequest(s)
    \/ \E s \in AppSlots : RequestEnded(s)
    \/ \E s \in Slots : TimerFires(s)
    \/ \E f \in ClientMsgs(received) : Receive(f)
    \/ ObserveClient
    \/ \E how \in {"clean", "abnormal"} : TransportCloses(how)
    \/ HandlerEnds

NextConnect ==
    \/ Connect
    \/ ConnectRefused
    \/ BackoffDone
    \/ ConnectOpen
    \/ InitializeEnded
    \/ ListTools
    \/ ToolsListEnded
    \/ \E s \in HandshakeSlots : TimerFires(s)
    \/ \E f \in HandshakeMsgs(received) : Receive(f)
    \/ ObserveClient
    \/ \E how \in {"clean", "abnormal"} : TransportCloses(how)
    \/ HandlerEnds
    \/ \E how \in {"clean", "abnormal"} : OrphanCloses(how)
    \/ \E how \in {"clean", "abnormal"} : OrphanEnds(how)

(***************************************************************************)
(* Spec: the Tool Port.  Every connection sends any frame of ToolMsgs and  *)
(* may close at any time; the Execution Port has the one peer FirstPeer,   *)
(* which connects, may close and is then removed.                          *)
(***************************************************************************)
FirstPeer == {p \in Peers : \A q \in Peers : p <= q}

Next ==
    \/ \E c \in Conns : ToolConnect(c)
    \/ \E c \in Conns : ToolFail(c, "closed")
    \/ \E c \in Conns : ToolExit(c)
    \/ \E c \in Conns, m \in ToolMsgs : ToolRecv(c, m)
    \/ \E c \in Conns, p \in FirstPeer : TradeSend(c, p)
    \/ \E c \in Conns : TradeReturn(c)
    \/ \E p \in FirstPeer : WebsiteConnect(p)
    \/ \E p \in FirstPeer : WebsiteFail(p, "closed")
    \/ \E p \in FirstPeer : WebsiteWelcome(p)
    \/ \E p \in FirstPeer : WebsiteExit(p)
    \/ Observe

Init == InitServer /\ InitClient

Spec == Init /\ [][Next]_vars

(***************************************************************************)
(* SpecTrade: the Execution Port.  Every peer connects, closes or breaks   *)
(* at any time; the one Tool Port connection FirstConn sends tools/call    *)
(* frames that reach execute_trade.                                        *)
(***************************************************************************)
FirstConn == {c \in Conns : \A d \in Conns : c <= d}

TradeMsgs ==
    { Frame("object", "id1", "tools/call",
            Params("object", n, Args("object", "given", "given", "absent", "absent"))) :
        n \in {"buy_crypto", "sell_crypto"} }
    \cup { Frame("object", "id1", "tools/call",
                 Params("object", "hold", Args("object", "absent", "absent", "given", "absent"))) }

NextTrade ==
    \/ \E c \in FirstConn : ToolConnect(c)
    \/ \E c \in FirstConn, m \in TradeMsgs : ToolRecv(c, m)
    \/ \E c \in FirstConn, p \in Peers : TradeSend(c, p)
    \/ \E c \in FirstConn : TradeReturn(c)
    \/ \E p \in Peers : WebsiteConnect(p)
    \/ \E p \in Peers, how \in {"closed", "broken"} : WebsiteFail(p, how)
    \/ \E p \in Peers : WebsiteWelcome(p)
    \/ \E p \in Peers : WebsiteExit(p)
    \/ Observe

SpecTrade == Init /\ [][NextTrade]_vars

(***************************************************************************)
(* SpecList: a handler that starts with no tool; tools are registered      *)
(* while one connection sends tools/list requests.                         *)
(***************************************************************************)
ListMsgs ==
    { Frame("object", i, "tools/list", NoParams(k)) :
        i \in MsgIds, k \in {"absent", "nonobject"} }

NextList ==
    \/ \E t \in ToolChoices : RegisterTool(t)
    \/ \E c \in FirstConn : ToolConnect(c)
    \/ \E c \in FirstConn : ToolFail(c, "closed")
    \/ \E c \in FirstConn : ToolExit(c)
    \/ \E c \in FirstConn, m \in ListMsgs : ToolRecv(c, m)
    \/ Observe

InitList == InitGateway(EmptyRegistry) /\ InitClient

SpecList == InitList /\ [][NextList]_vars

(***************************************************************************)
(* SpecWelcome: Execution Port peers connect while one Tool Port           *)
(* connection runs a trade or a broadcast_message call is in progress.     *)
(***************************************************************************)
NextWelcome ==
    \/ \E c \in FirstConn : ToolConnect(c)
    \/ \E c \in FirstConn, m \in TradeMsgs : bcast.kind = "none" /\ ToolRecv(c, m)
    \/ \E c \in FirstConn, p \in Peers : TradeSend(c, p)
    \/ \E c \in FirstConn : TradeReturn(c)
    \/ \E p \in Peers : WebsiteConnect(p)
    \/ \E p \in FirstPeer : WebsiteFail(p, "closed")
    \/ \E p \in Peers : WebsiteWelcome(p)
    \/ \E p \in FirstPeer : WebsiteExit(p)
    \/ (\A c \in Conns : tpc[c] # "trade") /\ BroadcastMessage
    \/ \E p \in Peers : BroadcastSend(p)
    \/ BroadcastReturn
    \/ ObserveBroadcast
    \/ Observe

SpecWelcome == Init /\ [][NextWelcome]_vars

(***************************************************************************)
(* SpecForward: agent_response requests on the Tool Port, with and without *)
(* a forwarding callback.                                                  *)
(***************************************************************************)
ForwardMsgs ==
    { Frame("object", i, "agent_response", NoParams(k)) :
        i \in MsgIds, k \in {"absent", "object", "nonobject"} }

NextForward ==
    \/ \E cb \in {"forwards", "raises"} : SetAgentResponseCallback(cb)
    \/ \E c \in Conns : ToolConnect(c)
    \/ \E c \in Conns, how \in {"closed", "broken"} : ToolFail(c, how)
    \/ \E c \in Conns : ToolExit(c)
    \/ \E c \in Conns, m \in ForwardMsgs : ToolRecv(c, m)
    \/ Observe

SpecForward == Init /\ [][NextForward]_vars

(***************************************************************************)
(* SpecWebsite: the messages of the Execution Port other than a market     *)
(* data message that is broadcast.                                         *)
(***************************************************************************)
NextWebsite ==
    \/ \E p \in Peers : WebsiteConnect(p)
    \/ \E p \in Peers, how \in {"closed", "broken"} : WebsiteFail(p, how)
    \/ \E p \in Peers : WebsiteWelcome(p)
    \/ \E p \in Peers : WebsiteExit(p)
    \/ \E p \in Peers, m \in WebMsgs : WebsiteRecv(p, m)
    \/ ObserveWebsite

SpecWebsite == Init /\ [][NextWebsite]_vars

(***************************************************************************)
(* SpecCast: the two broadcasts.  Connections of both ports connect, close *)
(* or break (a send on a broken connection raises an exception other than  *)
(* ConnectionClosed) and are removed by their handlers.                    *)
(***************************************************************************)
NextCast ==
    \/ \E c \in Conns : ToolConnect(c)
    \/ \E c \in Conns, how \in {"closed", "broken"} : ToolFail(c, how)
    \/ \E c \in Conns : ToolExit(c)
    \/ \E p \in Peers : WebsiteConnect(p)
    \/ \E p \in Peers, how \in {"closed", "broken"} : WebsiteFail(p, how)
    \/ \E p \in Peers : WebsiteWelcome(p)
    \/ \E p \in Peers : WebsiteExit(p)
    \/ \E p \in Peers : WebsiteMarketData(p)
    \/ BroadcastMessage
    \/ \E x \in Conns \cup Peers : BroadcastSend(x)
    \/ BroadcastReturn
    \/ ObserveBroadcast

SpecCast == Init /\ [][NextCast]_vars

(***************************************************************************)
(* SpecNotify: broadcast_notification alone.  One Execution Port peer      *)
(* sends market_data messages, well formed or not; the Tool Port           *)
(* connections connect, close or break and are removed by their handlers.  *)
(***************************************************************************)
BadMarketData == {m \in WebMsgs : m.type = "market_data"}

NextNotify ==
    \/ \E c \in CastConns : ToolConnect(c)
    \/ \E c \in CastConns, how \in {"closed", "broken"} : ToolFail(c, how)
    \/ \E c \in CastConns : ToolExit(c)
    \/ \E p \in FirstPeer : WebsiteConnect(p)
    \/ \E p \in FirstPeer : WebsiteWelcome(p)
    \/ \E p \in FirstPeer : WebsiteMarketData(p)
    \/ \E p \in FirstPeer, m \in BadMarketData : WebsiteRecv(p, m)
    \/ \E c \in CastConns : BroadcastSend(c)
    \/ BroadcastReturn
    \/ ObserveBroadcast
    \/ ObserveWebsite

SpecNotify == Init /\ [][NextNotify]_vars

(***************************************************************************)
(* SpecSnapshot: each broadcast on its own.  The behaviours of SpecNotify, *)
(* and those of broadcast_message over the Execution Port peers while no   *)
(* Tool Port connection has been made.                                     *)
(***************************************************************************)
NotifyOnly ==
    /\ bcast.kind # "message"
    /\ \A p \in Peers \ FirstPeer : wtrans[p] = "unconnected"

MessageOnly ==
    /\ bcast.kind # "notification"
    /\ \A c \in CastConns : ttrans[c] = "unconnected"

NextSnapshot ==
    \/ \E c \in CastConns : NotifyOnly /\ ToolConnect(c)
    \/ \E c \in CastConns, how \in {"closed", "broken"} : NotifyOnly /\ ToolFail(c, how)
    \/ \E c \in CastConns : NotifyOnly /\ ToolExit(c)
    \/ \E p \in FirstPeer : NotifyOnly /\ WebsiteMarketData(p)
    \/ \E p \in FirstPeer : WebsiteConnect(p)
    \/ \E p \in Peers \ FirstPeer : MessageOnly /\ WebsiteConnect(p)
    \/ \E p \in Peers : WebsiteWelcome(p)
    \/ \E p \in Peers, how \in {"closed", "broken"} : MessageOnly /\ WebsiteFail(p, how)
    \/ \E p \in Peers : MessageOnly /\ WebsiteExit(p)
    \/ MessageOnly /\ BroadcastMessage
    \/ \E x \in CastConns \cup Peers : BroadcastSend(x)
    \/ BroadcastReturn
    \/ ObserveBroadcast

SpecSnapshot == Init /\ [][NextSnapshot]_vars

(***************************************************************************)
(* SpecCallback: the agent's market-data callback.  One connect(), then    *)
(* market_data notifications; the server answers the requests it has       *)
(* received, with a result or an error, late or never.                     *)
(***************************************************************************)
CallbackMsgs(ids) ==
    { Reply(i, k, "p1") : i \in ids \cap (HandshakeSlots \cup CallbackSlots),
                          k \in {"result", "error"} }

NextCallback ==
    \/ SetCallback
    \/ FirstConnect
    \/ ConnectOpen
    \/ InitializeEnded
    \/ ListTools
    \/ ToolsListEnded
    \/ AgentMarketData
    \/ AgentResponseEnded
    \/ \E s \in Slots : TimerFires(s)
    \/ \E f \in CallbackMsgs(received) : Receive(f)
    \/ ObserveClient
    \/ \E how \in {"clean", "abnormal"} : TransportCloses(how)
    \/ HandlerEnds

SpecCallback == Init /\ [][NextCallback]_vars

(***************************************************************************)
(* SpecClient: one MCPClient against a server that answers any request it  *)
(* has received, in any order, late, twice or never.                       *)
(***************************************************************************)
SpecClient == Init /\ [][NextClient]_vars

(***************************************************************************)
(* SpecConnect: connect() and its later calls, against a server that       *)
(* refuses or accepts the transport and answers the handshake with a       *)
(* result or an error, late or never.                                      *)
(***************************************************************************)
SpecConnect == Init /\ [][NextConnect]_vars

\* websockets.connect, asyncio.sleep and wait_for end; a task that can run
\* again and again does run
SpecConnectLive ==
    /\ SpecConnect
    /\ WF_vars(ObserveClient)
    /\ SF_vars(ConnectRefused \/ ConnectOpen)
    /\ SF_vars(BackoffDone)
    /\ SF_vars(InitializeEnded)
    /\ SF_vars(ListTools)
    /\ SF_vars(ToolsListEnded)
    /\ \A s \in HandshakeSlots : SF_vars(TimerFires(s))

(***************************************************************************)
(*                    Properties of the Execution Port                     *)
(***************************************************************************)
\* execute_trade has returned its outcome list
TradeReturned == last.trade.started /\ ~last.trade.raised

ResultClients(results) == {results[i].client : i \in 1..Len(results)}

\* C2: execute_trade called with N >= 1 peers in the registry returns an outcome
\* list with exactly N entries, one per peer of the snapshot, each marked sent
\* or failed, whatever the outcome of each send.
C2_OneOutcomePerPeer ==
    (TradeReturned /\ last.trade.snap0 # {}) =>
        /\ Len(last.trade.results) = Cardinality(last.trade.snap0)
        /\ ResultClients(last.trade.results) = last.trade.snap0
        /\ \A i \in 1..Len(last.trade.results) :
               last.trade.results[i].status \in {"sent", "failed"}

\* C3: execute_trade called while the execution registry is empty fails with
\* an error, performs no send to any connection and leaves the registry
\* unchanged.
C3_EmptyRegistryFails ==
    (last.trade.started /\ last.trade.before = {}) =>
        /\ last.trade.raised
        /\ last.trade.tried = {}
        /\ last.trade.results = << >>
        /\ website_clients = last.trade.before
        /\ last.exc = OrderFailed(last.invoked, <<"No website clients connected">>)

C3_Witness ==
    /\ last.trade.started
    /\ last.trade.before = {}
    /\ last.trade.raised
    /\ \E p \in Peers : wpc[p] = "done"

\* C4: execute_trade sends the same trade_command to every execution peer that
\* is in the registry when the call starts; a send failure on a peer removes
\* that peer from the registry, does not make the call fail and does not stop
\* the sends to the remaining peers.
C4_FanOutRemovesFailed ==
    (last.trade.started /\ last.trade.before # {}) =>
        /\ ~last.trade.raised
        /\ {t.peer : t \in last.trade.tried} = last.trade.before
        /\ \A t \in last.trade.tried :
               /\ \A u \in last.trade.tried : u.command = t.command
               /\ t.outcome # "ok" => t.peer \notin website_clients

(***************************************************************************)
(*                       Properties of the Tool Port                       *)
(***************************************************************************)
Exchanged == last # NoExchange

\* the frames of the exchange that reached the peer
Delivered == SelectSeq(last.sent, LAMBDA a : a.outcome = "ok")

IsCall(m) == m.json = "object" /\ m.method = "tools/call"

HasError(f, code) ==
    /\ "error" \in DOMAIN f
    /\ "result" \notin DOMAIN f
    /\ f.error.code = code

\* C5 as claimed: a tools/call whose name is absent or not registered always
\* gets a reply with error code -32601 and no result field, never a result
\* carrying isError, and no tool handler is invoked.
C5_UnregisteredIsNotFound ==
    (Exchanged /\ IsCall(last.msg) /\ last.msg.params.name \notin DOMAIN tools) =>
        /\ last.invoked = "none"
        /\ Len(last.sent) = 1
        /\ last.sent[1].to = last.conn
        /\ last.sent[1].outcome = "ok"
        /\ HasError(last.sent[1].frame, NOT_FOUND)

\* C5 as amended: a tools/call whose params is a JSON object (or missing) and
\* whose name is missing or a string that is not registered gets a reply with
\* error code -32601; when params is not an object, or the name is a JSON list
\* or object, the reply has error code -32603.  In every case the reply has no
\* result field (so no isError) and no tool handler is invoked.
C5_UnregisteredIsProtocolError ==
    (Exchanged /\ IsCall(last.msg) /\ last.msg.params.name \notin DOMAIN tools) =>
        /\ last.invoked = "none"
        /\ Len(last.sent) = 1
        /\ last.sent[1].to = last.conn
        /\ last.sent[1].outcome = "ok"
        /\ IF last.msg.params.kind # "nonobject" /\ last.msg.params.name # "unhashable"
           THEN HasError(last.sent[1].frame, NOT_FOUND)
           ELSE HasError(last.sent[1].frame, INTERNAL_ERROR)

C5_Witness ==
    /\ Exchanged
    /\ IsCall(last.msg)
    /\ last.msg.params.kind = "object"
    /\ last.msg.params.name = "no_such_tool"
    /\ Len(last.sent) = 1
    /\ HasError(last.sent[1].frame, NOT_FOUND)

\* C6: a tools/call for a registered tool whose handler raises gets a reply
\* with a result whose isError is true and whose content embeds the exception
\* text, and no error field; when the handler returns normally the result has
\* isError false.
C6_HandlerErrorIsResult ==
    (Exchanged /\ last.invoked # "none" /\ Delivered # << >>) =>
        /\ Len(last.sent) = 1
        /\ "result" \in DOMAIN last.sent[1].frame
        /\ "error" \notin DOMAIN last.sent[1].frame
        /\ LET result == last.sent[1].frame.result
           IN  IF last.exc # << >>
               THEN /\ result.isError = TRUE
                    /\ Len(result.content) > Len(last.exc)
                    /\ SubSeq(result.content, Len(result.content) - Len(last.exc) + 1,
                              Len(result.content)) = last.exc
               ELSE /\ result.isError = FALSE
                    /\ last.trade.started
                    /\ ~last.trade.raised

C6_Witness ==
    /\ Exchanged
    /\ last.invoked = "buy_crypto"
    /\ last.exc = <<"Missing required parameters: symbol, amount">>
    /\ Delivered # << >>

\* C7: for every request with an id received on a Tool Port connection that
\* stays open, the gateway sends exactly one reply carrying that id, on the
\* connection the request came from and on no other connection.
C7_OneReplyPerRequest ==
    (Exchanged /\ last.msg.json = "object" /\ last.msg.id # "absent"
               /\ ttrans[last.conn] = "open") =>
        /\ \A i \in 1..Len(last.sent) : last.sent[i].to = last.conn
        /\ Cardinality({i \in 1..Len(last.sent) : last.sent[i].outcome = "ok"
                                                /\ last.sent[i].frame.id = last.msg.id}) = 1
        /\ Len(Delivered) = 1

C7_Witness ==
    /\ Exchanged
    /\ last.msg.id = "id1"
    /\ last.trade.started
    /\ ~last.trade.raised
    /\ Cardinality(clients) > 1
    /\ Len(Delivered) = 1

\* C8: an inbound Tool Port frame that is not valid JSON gets an immediate
\* error reply with code -32700 and id null, and the connection is not closed:
\* it stays in the tool-client registry and its handler is back in the read
\* loop, where the next frame is processed as on any open connection.
C8_ParseErrorKeepsConnection ==
    (Exchanged /\ last.msg.json = "invalid") =>
        /\ Len(last.sent) = 1
        /\ last.sent[1] = Attempt(last.conn,
                                  [id |-> "null", error |-> ErrorObj(PARSE_ERROR, <<"Parse error">>)],
                                  "ok")
        /\ last.returned
        /\ last.conn \in clients
        /\ ttrans[last.conn] = "open"
        /\ tpc[last.conn] = "idle"

C8_Witness ==
    /\ Exchanged
    /\ last.msg.json = "invalid"
    /\ Len(last.sent) = 1
    /\ last.conn \in clients

\* the dispatch of frame m raises an exception that is not JSONDecodeError
DispatchRaises(m) ==
    \/ m.json = "nonobject"
    \/ m.json = "object" /\ handle_request(ParseRequest(m)).out = "raise"

\* C9: for every inbound Tool Port frame that parses as JSON but whose dispatch
\* raises an unexpected exception (params that is not an object, a top-level
\* JSON value that is not an object), the gateway sends one well-formed reply
\* with error code -32603, carrying the payload's id when it can be recovered
\* and null otherwise, and the connection handler keeps running.
C9_InternalErrorReply ==
    (Exchanged /\ DispatchRaises(last.msg)) =>
        /\ Len(last.sent) = 1
        /\ last.sent[1].to = last.conn
        /\ last.sent[1].outcome = "ok"
        /\ HasError(last.sent[1].frame, INTERNAL_ERROR)
        /\ last.sent[1].frame.id = (IF last.msg.id = "absent" THEN "null" ELSE last.msg.id)
        /\ last.returned
        /\ last.conn \in clients
        /\ tpc[last.conn] = "idle"


(***************************************************************************)
(*                        MCPClient: the correlator                        *)
(***************************************************************************)
Suspended(s) == rpc[s] = "waiting" /\ fut[s] = "pending"

\* C1: once the transport has closed and the message_handler task has ended
\* on it, no id is left in pending_requests and no send_request caller is
\* still suspended on its future: the close itself has failed them.
C1_CloseFailsPending ==
    mh = "ended" =>
        /\ pending_requests = {}
        /\ \A s \in Slots : ~Suspended(s)

\* C10: a send_request whose wait_for timed out ends with the timeout error
\* and with its id out of pending_requests; from then on its outcome stays
\* the timeout, its future stays cancelled and its id stays out of
\* pending_requests, whatever reply arrives afterwards.
C10_TimeoutFailsOnce ==
    [][\A s \in Slots :
          /\ (rpc[s] = "waiting" /\ fut[s] = "cancelled" /\ rpc'[s] = "done")
                => req_outcome'[s] = "timeout"
          /\ req_outcome'[s] = "timeout" =>
                /\ req_outcome[s] \in {"none", "timeout"}
                /\ req_outcome[s] = "none" => rpc[s] = "waiting"
                /\ fut'[s] = "cancelled"
                /\ s \notin pending_requests']_vars

\* a caller has failed with the timeout and a reply to it was discarded as
\* one for an unknown id
C10_Witness ==
    \E s \in AppSlots :
        /\ req_outcome[s] = "timeout"
        /\ IsReply(inbound.frame)
        /\ inbound.frame.id = s
        /\ s \notin inbound.before.pending
        /\ s \notin pending_requests


\* process_message has just ended for a reply frame
Replied == ~ClientQuiet /\ IsReply(inbound.frame)

\* C11: a reply whose id is not in pending_requests when it arrives is
\* discarded without error: pending_requests and every future are as they
\* were, nothing is raised inside process_message and the market-data
\* callback is not invoked.  (The ids are uuid4 values, line 99, which the
\* model takes as never repeating: every send_request call has an id of its
\* own.)
C11_UnknownReplyDiscarded ==
    (Replied /\ inbound.frame.id \notin inbound.before.pending) =>
        /\ pending_requests = inbound.before.pending
        /\ fut = inbound.before.fut
        /\ fvalue = inbound.before.value
        /\ ~inbound.called
        /\ ~inbound.caught

\* a reply for a request that has already ended arrives while another
\* request is pending and a callback is set
C11_Witness ==
    /\ Replied
    /\ inbound.frame.id \in Slots
    /\ inbound.frame.id \notin inbound.before.pending
    /\ \E t \in Slots : t \in inbound.before.pending /\ fut[t] = "pending"
    /\ market_data_callback = "set"

\* C12: a reply resolves the future of the request whose id it carries, and
\* no other: with the result when it has no error, with an exception that
\* carries the error's message when it has one; every other pending request
\* is left as it was, and a send_request that returns or raises hands its
\* caller what its own future holds.
C12_ReplyMatchedById ==
    /\ \A s \in Slots :
         (/\ Replied
          /\ inbound.frame.id = s
          /\ s \in inbound.before.pending
          /\ inbound.before.fut[s] = "pending"
          /\ inbound.frame.kind \in {"result", "error"}) =>
             /\ fut[s] = IF inbound.frame.kind = "error" THEN "exception" ELSE "result"
             /\ fvalue[s] = inbound.frame.payload
             /\ pending_requests = inbound.before.pending \ {s}
             /\ \A t \in Slots \ {s} : /\ fut[t] = inbound.before.fut[t]
                                       /\ fvalue[t] = inbound.before.value[t]
    /\ \A s \in Slots :
         /\ req_outcome[s] = "result" => fut[s] = "result" /\ fvalue[s] \in Payloads
         /\ req_outcome[s] = "error" => fut[s] = "exception" /\ fvalue[s] \in Payloads

\* two requests are pending and the reply to one of them has just resolved it
C12_Witness ==
    \E s \in Slots, t \in Slots :
        /\ s # t
        /\ Replied
        /\ inbound.frame.id = s
        /\ {s, t} \subseteq inbound.before.pending
        /\ inbound.before.fut[s] = "pending"
        /\ inbound.before.fut[t] = "pending"
        /\ fut[s] = "exception"
        /\ fut[t] = "pending"


(***************************************************************************)
(*                             The broadcasts                              *)
(***************************************************************************)
Registry(kind) == IF kind = "notification" THEN clients ELSE website_clients

SentTo(tried) == {tried[i].to : i \in 1..Len(tried)}

\* C13: when a broadcast_notification or a broadcast_message call has ended,
\* it has attempted a send on every connection of the registry copy it
\* started with, whatever the other sends did, and every connection whose
\* send failed, in whatever way, is no longer in the registry.
C13_BroadcastSurvivesFailure ==
    bcast.ended =>
        /\ SentTo(bcast.tried) = bcast.snap0
        /\ \A i \in 1..Len(bcast.tried) :
               bcast.tried[i].outcome # "ok" => bcast.tried[i].to \notin Registry(bcast.kind)


(***************************************************************************)
(*                               tools/list                                *)
(***************************************************************************)
IsList(m) == m.json = "object" /\ m.method = "tools/list"

\* C14: the reply to a tools/list request carries a result and no error, and
\* the result lists the register_tool calls made so far, one entry each with
\* the name, description and inputSchema of the call, in the order of the
\* calls; with no call made the list is empty.
C14_ToolsListIsRegistry ==
    (Exchanged /\ IsList(last.msg)) =>
        /\ Len(last.sent) = 1
        /\ last.sent[1].outcome = "ok"
        /\ "error" \notin DOMAIN last.sent[1].frame
        /\ "result" \in DOMAIN last.sent[1].frame
        /\ last.sent[1].frame.result.tools = registered

\* tools/list is answered after three tools of different names were registered
C14_Witness ==
    /\ Exchanged
    /\ IsList(last.msg)
    /\ Len(registered) = 3
    /\ Cardinality({registered[i].name : i \in 1..3}) = 3
    /\ last.sent[1].frame.result.tools = registered

C14_EmptyCase ==
    /\ Exchanged
    /\ IsList(last.msg)
    /\ registered = << >>
    /\ last.sent[1].frame.result.tools = << >>


(***************************************************************************)
(*                           MCPClient.connect                             *)
(***************************************************************************)
InHandshake == cpc \in {"initialize", "notified", "tools/list"}

\* C15: when the message_handler task of the connection has ended on a closed
\* transport, however the close showed, connected is false.
C15_HandlerEndClearsConnected ==
    mh = "ended" => ~connected

\* C16: connected is never true while the initialize or tools/list exchange
\* of the connection is outstanding.
C16_ConnectedAfterHandshake ==
    connected => ~InHandshake

\* C17: on a connection that connect() has opened, the handshake frames go
\* out as initialize, notifications/initialized, tools/list, in that order;
\* the notification goes out only when the initialize call has returned its
\* reply's result, and connect() has returned only when all three are sent
\* and the tools/list call has returned its reply's result.
C17_HandshakeInOrder ==
    (InHandshake \/ cpc = "ready") =>
        /\ \E n \in 1..3 :
             handshake_sent = SubSeq(<<"initialize", "notifications/initialized",
                                       "tools/list">>, 1, n)
        /\ Len(handshake_sent) >= 2 => req_outcome["initialize"] = "result"
        /\ cpc = "ready" => /\ Len(handshake_sent) = 3
                            /\ req_outcome["tools/list"] = "result"

\* a second connect() call has returned after its handshake
C17_Witness ==
    /\ cpc = "ready"
    /\ connects = 2
    /\ Len(handshake_sent) = 3
    /\ req_outcome["tools/list"] = "result"

\* C18: connect() has failed only on its last attempt: a failure of a
\* handshake step on an earlier attempt is followed by another attempt.
C18_HandshakeFailureRetried ==
    cpc = "failed" => attempt = max_retries - 1

\* C19: a connect() call ends, returning or raising; it makes at most 3
\* attempts on the transport; it sleeps once before every attempt but the
\* first, 2.0 s and then 3.0 s, and not after the last; and when it has
\* raised, connected is false.
C19_ConnectTerminates ==
    /\ [](/\ attempt \in 0..2
          /\ Len(slept) = attempt
          /\ \A i \in 1..Len(slept) : slept[i] = IF i = 1 THEN 20 ELSE 30
          /\ cpc = "sleeping" => attempt < 2
          /\ cpc = "failed" => ~connected)
    /\ (cpc \notin {"none", "ready", "failed"}) ~> (cpc \in {"ready", "failed"})

\* every attempt was refused
C19_Witness ==
    /\ cpc = "failed"
    /\ attempt = 2
    /\ slept = <<20, 30>>
    /\ handshake_sent = << >>
    /\ ~connected


(***************************************************************************)
(*                 MCPProtocolHandler.handle_request: methods              *)
(***************************************************************************)
\* C20: a Tool Port request (a JSON object) whose method is none of
\* initialize, notifications/initialized, tools/list, tools/call and
\* agent_response, a missing method included, is answered with error code
\* -32601 and no result; a request whose method is initialize,
\* notifications/initialized or tools/list is answered with a result and no
\* error.  On an open connection the answer is the one frame delivered.
C20_UnknownMethodNotFound ==
    (Exchanged /\ last.msg.json = "object") =>
        /\ last.msg.method \notin {"initialize", "notifications/initialized",
                                   "tools/list", "tools/call", "agent_response"} =>
             /\ last.invoked = "none"
             /\ \A i \in 1..Len(Delivered) : HasError(Delivered[i].frame, NOT_FOUND)
             /\ ttrans[last.conn] = "open" => Len(Delivered) = 1
        /\ last.msg.method \in {"initialize", "notifications/initialized", "tools/list"} =>
             /\ \A i \in 1..Len(Delivered) :
                  /\ "error" \notin DOMAIN Delivered[i].frame
                  /\ "result" \in DOMAIN Delivered[i].frame
             /\ ttrans[last.conn] = "open" => Len(Delivered) = 1

C20_Witness ==
    /\ Exchanged
    /\ last.msg.json = "object"
    /\ last.msg.method = "no/such/method"
    /\ last.msg.id = "id1"
    /\ Len(Delivered) = 1
    /\ Delivered[1].frame.id = "id1"
    /\ HasError(Delivered[1].frame, NOT_FOUND)


(***************************************************************************)
(*                 MCPProtocolHandler.handle_request: agent_response       *)
(***************************************************************************)
IsForward(m) == m.json = "object" /\ m.method = "agent_response"

IsAck(a, conn, m) ==
    /\ a.to = conn
    /\ "result" \in DOMAIN a.frame
    /\ "error" \notin DOMAIN a.frame
    /\ a.frame.result = [status |-> "response_forwarded"]
    /\ m.id # "absent" => a.frame.id = m.id

\* C21 as claimed: every agent_response request is answered with the success
\* acknowledgement and with no error reply, whether a callback is configured
\* or not and whether it raises or not.
C21_AgentResponseAlwaysAcked ==
    (Exchanged /\ IsForward(last.msg)) =>
        /\ \A i \in 1..Len(Delivered) : IsAck(Delivered[i], last.conn, last.msg)
        /\ ttrans[last.conn] = "open" => Len(Delivered) = 1

\* C21 as amended: an agent_response request whose params is a JSON object
\* (or missing) is answered with the success acknowledgement as the only
\* frame built for it on an open connection, when no callback is configured
\* (nothing is invoked) and when the callback is invoked, raising or not.
\* When params is not a JSON object no callback is invoked and the reply is
\* an error with code -32603.
C21_AgentResponseAcked ==
    (Exchanged /\ IsForward(last.msg)) =>
        IF last.msg.params.kind # "nonobject"
        THEN /\ Len(last.sent) >= 1
             /\ IsAck(last.sent[1], last.conn, last.msg)
             /\ ttrans[last.conn] = "open" =>
                  /\ Len(last.sent) = 1
                  /\ last.sent[1].outcome = "ok"
             /\ last.invoked = IF agent_response_callback = "None"
                               THEN "none" ELSE "agent_response_callback"
             /\ last.exc # << >> <=> agent_response_callback = "raises"
        ELSE /\ last.invoked = "none"
             /\ \A i \in 1..Len(Delivered) : HasError(Delivered[i].frame, INTERNAL_ERROR)
             /\ ttrans[last.conn] = "open" => Len(Delivered) = 1

\* the callback has raised and the acknowledgement has been delivered
C21_Witness ==
    /\ Exchanged
    /\ IsForward(last.msg)
    /\ last.msg.params.kind = "object"
    /\ agent_response_callback = "raises"
    /\ last.invoked = "agent_response_callback"
    /\ last.exc # << >>
    /\ Len(Delivered) = 1
    /\ IsAck(Delivered[1], last.conn, last.msg)


(***************************************************************************)
(*                    Properties of the Execution Port                     *)
(***************************************************************************)
WExchanged == wlast # NoWExchange

\* the connections a broadcast has attempted a send on
Attempted == {bcast.tried[i].to : i \in 1..Len(bcast.tried)}

\* C22: when the handling of a market_data message of an Execution Port
\* peer has ended, one notification has been sent on every Tool Port
\* connection that was in the registry when the broadcast started, and
\* nothing has been sent to the peer.
C22_MarketDataReachesAll ==
    (WExchanged /\ wlast.msg.size = "ok" /\ wlast.msg.json = "object"
                /\ wlast.msg.type = "market_data") =>
        /\ bcast.kind = "notification"
        /\ bcast.ended
        /\ Attempted = bcast.snap0
        /\ Len(bcast.tried) = Cardinality(bcast.snap0)
        /\ wlast.sent = << >>


\* a message that passes the checks of lines 53-70
HasType(m) == m.size = "ok" /\ m.json = "object" /\ m.type # "absent"

\* C23: a ping of an Execution Port peer is answered with one pong, sent to
\* that peer and to no other, and on an open connection the pong is all that
\* is sent; a trade_confirmation and a message of a type that is not known
\* are answered with nothing, and their handling leaves both registries as
\* they were.
C23_PingPong ==
    /\ []((WExchanged /\ HasType(wlast.msg)) =>
            /\ wlast.msg.type = "ping" =>
                 /\ \A i \in 1..Len(wlast.sent) : wlast.sent[i].to = wlast.peer
                 /\ Cardinality({i \in 1..Len(wlast.sent) :
                                   wlast.sent[i].frame = [type |-> "pong"]}) = 1
                 /\ wtrans[wlast.peer] = "open" =>
                      wlast.sent = <<Attempt(wlast.peer, [type |-> "pong"], "ok")>>
            /\ wlast.msg.type \in {"trade_confirmation", "no_such_type"} =>
                 wlast.sent = << >>)
    /\ [][(/\ wlast = NoWExchange
           /\ wlast' # NoWExchange
           /\ HasType(wlast'.msg)
           /\ wlast'.msg.type \in {"trade_confirmation", "no_such_type"}) =>
              /\ website_clients' = website_clients
              /\ clients' = clients
              /\ wlast'.returned]_vars

\* a ping is answered while another peer is registered
C23_Witness ==
    /\ WExchanged
    /\ wlast.msg.type = "ping"
    /\ wlast.msg.size = "ok"
    /\ wlast.sent = <<Attempt(wlast.peer, [type |-> "pong"], "ok")>>
    /\ Cardinality(website_clients) = 2


\* the messages that handle_website_message rejects or fails on
Rejected(m) ==
    \/ m.size # "ok"
    \/ m.json # "object"
    \/ m.type = "absent"
    \/ m.type = "market_data" /\ MarketDataRaises(m)

\* C24: an Execution Port message that is oversized or empty, is not valid
\* JSON, has no type field or makes its processing raise is answered with an
\* error reply to its peer, and the peer's connection goes on: the peer is
\* still in the registry and its handler is back in the read loop.
C24_NoMessageFatal ==
    (WExchanged /\ Rejected(wlast.msg)) =>
        /\ Len(wlast.sent) >= 1
        /\ \A i \in 1..Len(wlast.sent) :
             /\ wlast.sent[i].to = wlast.peer
             /\ wlast.sent[i].frame.type = "error"
        /\ wlast.returned
        /\ wlast.peer \in website_clients
        /\ wpc[wlast.peer] = "idle"


\* the sends of the broadcast that raised
Failed == {i \in 1..Len(bcast.tried) : bcast.tried[i].outcome # "ok"}

\* C25: when a broadcast_notification over a copy of 3 connections has
\* ended and 1 of its sends has failed, a send has been attempted on each of
\* the 3, the other 2 sends have succeeded, and the failing connection is no
\* longer in the registry.
C25_OneFailureOfThree ==
    (/\ bcast.kind = "notification"
     /\ bcast.ended
     /\ Cardinality(bcast.snap0) = 3
     /\ Cardinality(Failed) = 1) =>
        /\ Attempted = bcast.snap0
        /\ Len(bcast.tried) = 3
        /\ \A i \in Failed : bcast.tried[i].to \notin clients


\* the handler of connection x of the registry of a broadcast has ended
HasLeft(kind, x) == IF kind = "notification" THEN tpc[x] = "done" ELSE wpc[x] = "done"

\* C30: a broadcast_notification or broadcast_message call sends over the
\* copy of the registry it made when it started: the copy is the registry of
\* that moment and does not change; every send goes to a connection of the
\* copy, and no connection is sent to twice, so a connection that joined the
\* registry later is not sent to; and a send to a connection whose handler
\* has ended in the meantime does not end the broadcast.
C30_BroadcastOverSnapshot ==
    /\ [](bcast.kind # "none" =>
            /\ Attempted \subseteq bcast.snap0
            /\ Len(bcast.tried) = Cardinality(Attempted)
            /\ bcast.todo \subseteq bcast.snap0 \ Attempted)
    /\ [][/\ (bcast.kind = "none" /\ bcast'.kind # "none") =>
               bcast'.snap0 = Registry(bcast'.kind)
          /\ (bcast.kind # "none" /\ bcast'.kind # "none") =>
               bcast'.snap0 = bcast.snap0
          /\ (/\ bcast.kind # "none"
              /\ Len(bcast'.tried) = Len(bcast.tried) + 1
              /\ HasLeft(bcast.kind, bcast'.tried[Len(bcast'.tried)].to)) =>
               /\ ~bcast'.aborted
               /\ ~bcast'.ended
               /\ bcast'.todo = bcast.todo \ {bcast'.tried[Len(bcast'.tried)].to}]_vars

\* a broadcast_notification has ended: one connection of its copy had left
\* and its send was attempted, another received the notification, and a
\* connection that joined in the meantime was not sent to
C30_Witness ==
    /\ bcast.kind = "notification"
    /\ bcast.ended
    /\ ~bcast.aborted
    /\ clients \ bcast.snap0 # {}
    /\ \E i \in 1..Len(bcast.tried) :
         /\ bcast.tried[i].outcome = "closed"
         /\ tpc[bcast.tried[i].to] = "done"
    /\ \E i \in 1..Len(bcast.tried) : bcast.tried[i].outcome = "ok"

\* the same for a broadcast_message
C30_WitnessMessage ==
    /\ bcast.kind = "message"
    /\ bcast.ended
    /\ website_clients \ bcast.snap0 # {}
    /\ \E i \in 1..Len(bcast.tried) : bcast.tried[i].outcome # "ok"


(***************************************************************************)
(*                        The two registries                               *)
(***************************************************************************)
\* a connection is in a registry only while its handler task is running
RegisteredWhileRunning ==
    /\ \A c \in clients : tpc[c] \notin {"none", "done"}
    /\ \A p \in website_clients : wpc[p] \notin {"none", "done"}

\* C29: a connection is in a registry only from the start of its handler
\* task to its end, and a connection on which a broadcast has seen a send
\* fail, by a close or otherwise, is no longer in the registry.
C29_RegistryFollowsHandler ==
    /\ RegisteredWhileRunning
    /\ bcast.kind # "none" =>
         \A i \in Failed : bcast.tried[i].to \notin Registry(bcast.kind)


(***************************************************************************)
(*                 MCPClient: the dispatcher and its callers               *)
(***************************************************************************)
\* C26: while a send_request call waits for its reply on an open
\* connection, the message_handler task is in its read loop, so that the
\* reply is routed when it arrives; this holds for the agent_response
\* request that the market_data callback issues.
C26_DispatchNeverSuspended ==
    \A s \in Slots :
        (rpc[s] = "waiting" /\ fut[s] = "pending" /\ ctrans = "open") => mh = "running"


\* C27: a send_request call ends once, with a result or an error, and when
\* the dispatcher takes the future of a reply's id out of pending_requests
\* to complete it, the future is still pending: it has not been resolved
\* and has not been cancelled by the timeout.
C27_CompletesPendingFuturesOnly ==
    /\ \A s \in Slots : rpc[s] = "done" => req_outcome[s] # "none"
    /\ (/\ ~ClientQuiet
        /\ IsReply(inbound.frame)
        /\ inbound.frame.id \in inbound.before.pending \cap Slots) =>
            inbound.before.fut[inbound.frame.id] = "pending"

\* C28: an id is in pending_requests only while the send_request call that
\* added it is waiting: when the call has returned or raised, after a
\* reply, a timeout or a transmit that failed, its id is no longer there.
C28_PendingWhileWaiting ==
    \A s \in Slots : s \in pending_requests => rpc[s] = "waiting"

(***************************************************************************)
(*               The advertised schemas and the tool handlers              *)
(***************************************************************************)
ArgFields == {"symbol", "amount", "reason", "crypto"}

\* the inputSchema that tools/list advertises for a name
Advertised(name) ==
    {tool_definitions[i].inputSchema :
        i \in {k \in 1..Len(tool_definitions) : tool_definitions[k].name = name}}

\* arguments that are an object whose fields are exactly the required ones,
\* each with a non-empty value
SuppliesExactly(arguments, required) ==
    /\ arguments.kind = "object"
    /\ \A f \in ArgFields :
          IF \E i \in 1..Len(required) : required[i] = f
          THEN arguments[f] = "given"
          ELSE arguments[f] = "absent"

MissingParameters(exc) ==
    exc \in {<<"Missing required parameters: symbol, amount">>,
             <<"Missing required parameter: reason">>}

\* C31: a tools/call for a registered tool whose arguments supply exactly the
\* fields that the tool's advertised inputSchema lists as required, with
\* non-empty values, is not rejected by the handler for missing parameters.
C31_RequiredFieldsAccepted ==
    (/\ Exchanged
     /\ IsCall(last.msg)
     /\ last.msg.params.kind = "object"
     /\ last.msg.params.name \in DOMAIN tools
     /\ \E schema \in Advertised(last.msg.params.name) :
            SuppliesExactly(last.msg.params.arguments, schema.required)) =>
        ~MissingParameters(last.exc)

\* the names a tools/list result carries, entry by entry
ListedNames(result) == [i \in 1..Len(result.tools) |-> result.tools[i].name]

\* C32: after any sequence of register_tool calls, the names in the
\* tools/list result are pairwise distinct and are exactly the names that
\* tools/call can dispatch to: a name registered twice has one entry.
C32_ListedNamesDistinct ==
    (Exchanged /\ IsList(last.msg) /\ Delivered # << >>) =>
        LET names == ListedNames(Delivered[1].frame.result)
        IN  /\ \A i, j \in 1..Len(names) : names[i] = names[j] => i = j
            /\ {names[i] : i \in 1..Len(names)} = DOMAIN tools

(***************************************************************************)
(*                     The ids of the Tool Port replies                    *)
(***************************************************************************)
\* the ids the peer sent in the message that is answered; the handler keeps
\* no id from one message of a connection to the next
ReceivedIds(m) == IF m.json = "object" THEN {m.id} \ {"absent"} ELSE {}

\* C33: every reply sent on a Tool Port connection carries an id that was
\* received on that connection, or null; a message without an id, such as
\* the notification notifications/initialized, causes no reply with an id
\* the peer did not send.
C33_ReplyIdsWereReceived ==
    Exchanged =>
        \A i \in 1..Len(last.sent) :
            /\ last.sent[i].to = last.conn
            /\ last.sent[i].frame.id \in ReceivedIds(last.msg) \cup {"null"}

(***************************************************************************)
(*                  The order of work on the Tool Port                     *)
(***************************************************************************)
\* C34: on one Tool Port connection requests are handled one at a time and
\* answered in the order received: while a tool handler runs for a
\* connection, the only exchange that ends on it is that of the request
\* being handled.  The running handler does not delay the other
\* connections: an open connection whose task is reading can have its next
\* request processed.
C34_OneAtATimePerConnection ==
    /\ [](\A c, d \in Conns :
            (c # d /\ tpc[c] = "trade" /\ Reading(d) /\ ttrans[d] = "open" /\ Quiet) =>
                \A m \in ToolMsgs :
                    \* MaxCalls bounds the handlers inside execute_trade
                    (IsCall(m) => Cardinality({x \in Conns : tpc[x] = "trade"}) < MaxCalls)
                        => ENABLED ToolRecv(d, m))
    /\ [][\A c \in Conns :
            (tpc[c] = "trade" /\ last = NoExchange /\ last' # NoExchange
                              /\ last'.conn = c) =>
                /\ last'.msg = call[c].msg
                /\ tpc'[c] # "trade"]_vars

\* a request of one connection is answered while the tool handler of
\* another connection is still inside execute_trade
C34_Witness ==
    /\ Exchanged
    /\ Delivered # << >>
    /\ \E c \in Conns : c # last.conn /\ tpc[c] = "trade"

(***************************************************************************)
(*             The first frame of an Execution Port connection             *)
(***************************************************************************)
\* C35: the first message the gateway sends to a newly connected Execution
\* Port peer is the connection_established acknowledgement: no trade_command
\* of an execute_trade that runs at the same time and no broadcast message
\* is written to the peer before it, although the peer is in the registry
\* before the acknowledgement send has returned.
C35_WelcomeIsFirst ==
    /\ \A p \in Peers : wfirst[p] \in {"none", "connection_established"}
    /\ \A p \in website_clients : wfirst[p] = "connection_established"

\* a trade_command was written to a peer whose connection_established send
\* has not returned yet
C35_Witness ==
    \E c \in Conns, p \in Peers :
        /\ wpc[p] = "welcome"
        /\ tpc[c] = "trade"
        /\ \E t \in call[c].tried : t.peer = p /\ t.outcome = "ok"
        /\ wfirst[p] = "connection_established"

\* the same for a broadcast message
C35_WitnessBroadcast ==
    \E p \in Peers :
        /\ wpc[p] = "welcome"
        /\ bcast.kind = "message"
        /\ \E i \in 1..Len(bcast.tried) : bcast.tried[i].to = p /\ bcast.tried[i].outcome = "ok"
        /\ wfirst[p] = "connection_established"

(***************************************************************************)
(*                    send_request without a connection                    *)
(***************************************************************************)
NotConnected == ~connected \/ websocket = "None"

\* C36: a send_request call made while the client is not connected
\* (connected false or no socket) fails at once with the not-connected
\* error, transmits nothing and leaves pending_requests unchanged.
C36_NotConnectedFailsAtOnce ==
    [][\A s \in Slots :
          \* the step that opens the connection issues initialize once connected
          (/\ NotConnected /\ connected' = connected /\ websocket' = websocket
           /\ rpc[s] = "free" /\ rpc'[s] # "free") =>
              /\ rpc'[s] = "done"
              /\ req_outcome'[s] = "not_connected"
              /\ received' = received
              /\ pending_requests' = pending_requests
              /\ fut' = fut]_vars

C36_Witness ==
    \E s \in Slots :
        /\ rpc[s] = "done"
        /\ req_outcome[s] = "not_connected"
        /\ s \notin pending_requests
        /\ s \notin received

(***************************************************************************)
(*                  connect() that fails in the handshake                  *)
(***************************************************************************)
\* connect() has raised after its transport was opened
HandshakeFailed == cpc = "failed" /\ handshake_sent # << >>

\* C37: when connect() has failed after the transport was opened, because a
\* handshake step failed, the client is fully disconnected: connected is
\* false, the message_handler task of the attempt is not running, and no
\* notification is delivered to the market-data callback.
C37_FailedConnectDisconnects ==
    HandshakeFailed =>
        /\ ~connected
        /\ mh \notin {"running", "callback"}
        /\ ~inbound.called

====
